---- MODULE Spec2Model ----
(***************************************************************************)
(* CyFix core: the healing pipeline of packages/cyfix-core                 *)
(* (finder.ts, scorer.ts, generator.ts and the healSelector orchestrator). *)
(*                                                                         *)
(* Conventions of the model                                                *)
(*  - JavaScript strings are TLA+ strings; SubSeq, Len and \o act on them. *)
(*  - An optional value (a field that may be undefined) is a sequence of   *)
(*    length 0 (undefined) or 1 (the value).  A DOMNode is a record whose  *)
(*    id, className, textContent, attributes and children are optional in  *)
(*    this sense; attributes is an insertion-ordered sequence of           *)
(*    [name, value] records, children a sequence of DOMNodes.              *)
(*  - JavaScript numbers that hold scores are exact rationals [n, d] in    *)
(*    lowest terms (d > 0).                                                *)
(*  - A function that can raise a TypeError has a companion predicate      *)
(*    ...Throws; its value operator is only used where it does not throw.  *)
(***************************************************************************)
EXTENDS Integers, Sequences, FiniteSets, TLC

\* ------------------------------------------------------------------ bounds
MaxBaselineChildren == 1
MaxCurrentChildren == 2
MaxCandidates == 2

\* ------------------------------------------------------- optional values
Undefined == <<>>

Some(v) == <<v>>

IsDefined(o) == Len(o) > 0

\* JavaScript truthiness of an optional string: defined and not ''.
Truthy(o) == Len(o) > 0 /\ o[1] # ""

\* ------------------------------------------------------------- rationals
RECURSIVE GCD(_, _)
GCD(a, b) == IF b = 0 THEN a ELSE GCD(b, a % b)

Rat(n, d) == LET g == GCD(n, d) IN IF g = 0 THEN [n |-> 0, d |-> 1] ELSE [n |-> n \div g, d |-> d \div g]

RAdd(a, b) == Rat(a.n * b.d + b.n * a.d, a.d * b.d)

RMul(a, b) == Rat(a.n * b.n, a.d * b.d)

RLess(a, b) == a.n * b.d < b.n * a.d

RLeq(a, b) == a.n * b.d <= b.n * a.d

RInt(k) == [n |-> k, d |-> 1]

\* --------------------------------------------------------------- strings
Whitespace == {" ", "\t", "\n"}

CharAt(s, i) == SubSeq(s, i, i)

StartsWith(s, p) == Len(s) >= Len(p) /\ SubSeq(s, 1, Len(p)) = p

Includes(s, p) == \E i \in 0..(Len(s) - Len(p)) : SubSeq(s, i + 1, i + Len(p)) = p

\* String.prototype.substring(from) with a 0-based index.
SubstringFrom(s, from) == SubSeq(s, from + 1, Len(s))

\* String.prototype.substring(0, to).
SubstringTo(s, to) == SubSeq(s, 1, IF to < Len(s) THEN to ELSE Len(s))

RECURSIVE TrimStart(_)
TrimStart(s) == IF Len(s) > 0 /\ CharAt(s, 1) \in Whitespace THEN TrimStart(SubSeq(s, 2, Len(s))) ELSE s

RECURSIVE TrimEnd(_)
TrimEnd(s) == IF Len(s) > 0 /\ CharAt(s, Len(s)) \in Whitespace THEN TrimEnd(SubSeq(s, 1, Len(s) - 1)) ELSE s

Trim(s) == TrimEnd(TrimStart(s))

UpperCase == <<"A", "B", "C", "D", "E", "F", "G", "H", "I", "J", "K", "L", "M", "N", "O", "P", "Q", "R", "S", "T", "U", "V", "W", "X", "Y", "Z">>

LowerCase == <<"a", "b", "c", "d", "e", "f", "g", "h", "i", "j", "k", "l", "m", "n", "o", "p", "q", "r", "s", "t", "u", "v", "w", "x", "y", "z">>

LowerChar(c) == IF \E i \in 1..26 : UpperCase[i] = c THEN LowerCase[CHOOSE i \in 1..26 : UpperCase[i] = c] ELSE c

RECURSIVE ToLowerCase(_)
ToLowerCase(s) ==
    IF Len(s) <= 1 THEN LowerChar(s)
    ELSE LET half == Len(s) \div 2
         IN ToLowerCase(SubSeq(s, 1, half)) \o ToLowerCase(SubSeq(s, half + 1, Len(s)))

\* s.split(/\s+/): the pieces between maximal runs of whitespace, the empty
\* pieces before a leading run and after a trailing run included.
RECURSIVE SplitWhitespace(_)
SplitWhitespace(s) ==
    IF \A i \in 1..Len(s) : CharAt(s, i) \notin Whitespace THEN <<s>>
    ELSE LET first == CHOOSE i \in 1..Len(s) : /\ CharAt(s, i) \in Whitespace
                                               /\ \A j \in 1..(i - 1) : CharAt(s, j) \notin Whitespace
             rest == TrimStart(SubSeq(s, first, Len(s)))
         IN <<SubSeq(s, 1, first - 1)>> \o SplitWhitespace(rest)

\* s.split('='): every piece between '=' characters.
RECURSIVE SplitEquals(_)
SplitEquals(s) ==
    IF \A i \in 1..Len(s) : CharAt(s, i) # "=" THEN <<s>>
    ELSE LET first == CHOOSE i \in 1..Len(s) : /\ CharAt(s, i) = "="
                                               /\ \A j \in 1..(i - 1) : CharAt(s, j) # "="
         IN <<SubSeq(s, 1, first - 1)>> \o SplitEquals(SubSeq(s, first + 1, Len(s)))

\* s.replace(/^"|"$/g, ''): one leading and one trailing double quote go.
StripQuotes(s) ==
    LET a == IF StartsWith(s, "\"") THEN SubSeq(s, 2, Len(s)) ELSE s
    IN IF Len(a) > 0 /\ CharAt(a, Len(a)) = "\"" THEN SubSeq(a, 1, Len(a) - 1) ELSE a

\* selector.match(/\./g)?.length, 0 standing for no match.
CountDots(s) == Cardinality({i \in 1..Len(s) : CharAt(s, i) = "."})

\* ------------------------------------------------------------- sequences
RECURSIVE FilterBoolean(_)
FilterBoolean(seq) ==
    IF Len(seq) = 0 THEN <<>>
    ELSE (IF Head(seq) # "" THEN <<Head(seq)>> ELSE <<>>) \o FilterBoolean(Tail(seq))

SeqIncludes(seq, v) == \E i \in 1..Len(seq) : seq[i] = v

\* The insertion order of new Set(seq): first occurrences only.
RECURSIVE SetOrder(_)
SetOrder(seq) ==
    IF Len(seq) = 0 THEN <<>>
    ELSE LET init == SetOrder(SubSeq(seq, 1, Len(seq) - 1))
             last == seq[Len(seq)]
         IN IF SeqIncludes(init, last) THEN init ELSE Append(init, last)

Range(seq) == {seq[i] : i \in 1..Len(seq)}

\* className.split(/\s+/).filter(Boolean) of a truthy className.
ClassTokens(className) == FilterBoolean(SplitWhitespace(className[1]))

\* ------------------------------------------------------------ attributes
\* obj[name] on an attributes map: undefined when the key is absent.
AttrGet(attrs, name) ==
    IF \E i \in 1..Len(attrs) : attrs[i].name = name
    THEN Some(attrs[CHOOSE i \in 1..Len(attrs) : attrs[i].name = name].value)
    ELSE Undefined

Attr(name, value) == [name |-> name, value |-> value]

\* ------------------------------------------------------- scorer.ts
\* Mutant: the intersection is divided by the size of the first word set.
calculateTextSimilarityOverFirst(text1, text2) ==
    LET set1 == Range(SplitWhitespace(Trim(ToLowerCase(text1))))
        set2 == Range(SplitWhitespace(Trim(ToLowerCase(text2))))
    IN Rat(Cardinality({w \in set1 : w \in set2}), Cardinality(set1))

\* calculateTextSimilarity: Jaccard similarity of the two word sets.
calculateTextSimilarity(text1, text2) ==
    LET set1 == Range(SplitWhitespace(Trim(ToLowerCase(text1))))
        set2 == Range(SplitWhitespace(Trim(ToLowerCase(text2))))
        intersectionSize == Cardinality({w \in set1 : w \in set2})
        unionSize == Cardinality(set1 \cup set2)
    IN IF unionSize = 0 THEN RInt(0) ELSE Rat(intersectionSize, unionSize)

importantAttrs == <<"name", "data-testid", "data-cy", "data-test", "href", "src", "alt", "title", "aria-label", "type", "role", "placeholder", "value">>

\* baselineElement.attributes || {}
AttrsOrEmpty(element) == IF IsDefined(element.attributes) THEN element.attributes[1] ELSE <<>>

\* The class set of an element as built by the scorer, in insertion order.
ClassSet(element) == IF Truthy(element.className) THEN SetOrder(ClassTokens(element.className)) ELSE <<>>

AbsDiff(a, b) == IF a >= b THEN a - b ELSE b - a

\* Mutant: the structure step credits more than it adds to the maximum.
StructureCreditAboveMax == 5 + 10

\* Mutant: the structure step credits all it adds to the maximum.
StructureCreditFull == 5 + 5

\* Credit given by the structure step when the child counts are similar.
StructureCredit == 5

\* calculateSimilarityScore raises a TypeError when it reads .length of a
\* missing children list (only reached when the tag names are equal).
calculateSimilarityScoreThrows(baselineElement, candidateElement) ==
    /\ baselineElement.tagName = candidateElement.tagName
    /\ ~IsDefined(baselineElement.children) \/ ~IsDefined(candidateElement.children)

\* Mutant: an id that differs is left out of the maximum.
IdStepExcludedOnMismatch(baselineElement, candidateElement) ==
    IF Truthy(baselineElement.id) /\ baselineElement.id = candidateElement.id
    THEN [max |-> 30, total |-> 30]
    ELSE [max |-> 0, total |-> 0]

\* Step 2, the id: what it adds to maxPossibleScore and to totalScore.
IdStep(baselineElement, candidateElement) ==
    IF Truthy(baselineElement.id)
    THEN [max |-> 30, total |-> IF baselineElement.id = candidateElement.id THEN 30 ELSE 0]
    ELSE [max |-> 0, total |-> 0]

\* The result of the early return on different tag names.
Vetoed == [score |-> RInt(0), matchedFeatures |-> <<>>, totalScore |-> RInt(0), maxPossibleScore |-> 0]

\* Steps 1 to 6 for two elements that passed the tag comparison.  The
\* record also carries the locals totalScore and maxPossibleScore.
ScoreSameTag(baselineElement, candidateElement) ==
    LET idStep == IdStep(baselineElement, candidateElement)
        idMatch == idStep.total > 0
        baselineClasses == ClassSet(baselineElement)
        candidateClasses == ClassSet(candidateElement)
        matchedClasses == SelectSeq(baselineClasses, LAMBDA cls : SeqIncludes(candidateClasses, cls))
        hasClasses == Len(baselineClasses) > 0
        classScore == IF hasClasses THEN Rat(Len(matchedClasses) * 20, Len(baselineClasses)) ELSE RInt(0)
        hasText == Truthy(baselineElement.textContent)
        textSimilarity == IF hasText /\ Truthy(candidateElement.textContent)
                          THEN calculateTextSimilarity(baselineElement.textContent[1], candidateElement.textContent[1])
                          ELSE RInt(0)
        textSimilar == hasText /\ Truthy(candidateElement.textContent) /\ RLess(Rat(8, 10), textSimilarity)
        textPartial == hasText /\ Truthy(candidateElement.textContent) /\ ~textSimilar /\ RLess(Rat(5, 10), textSimilarity)
        textScore == IF textSimilar THEN RMul(RInt(15), textSimilarity)
                     ELSE IF textPartial THEN RMul(RInt(10), textSimilarity) ELSE RInt(0)
        baselineAttrs == AttrsOrEmpty(baselineElement)
        candidateAttrs == AttrsOrEmpty(candidateElement)
        presentImportant == SelectSeq(importantAttrs, LAMBDA a : Truthy(AttrGet(baselineAttrs, a)))
        matchedImportant == SelectSeq(presentImportant, LAMBDA a : AttrGet(baselineAttrs, a) = AttrGet(candidateAttrs, a))
        otherAttrs == SelectSeq(baselineAttrs, LAMBDA e : ~SeqIncludes(importantAttrs, e.name) /\ e.name # "id" /\ e.name # "class")
        matchedOther == SelectSeq(otherAttrs, LAMBDA e : AttrGet(candidateAttrs, e.name) = Some(e.value))
        similarChildren == AbsDiff(Len(baselineElement.children[1]), Len(candidateElement.children[1])) <= 2
        totalScore == RAdd(RInt(10 + idStep.total + 10 * Len(matchedImportant) + 5 * Len(matchedOther)
                                + (IF similarChildren THEN StructureCredit ELSE 0)),
                           RAdd(classScore, textScore))
        maxPossibleScore == 10 + idStep.max + (IF hasClasses THEN 20 ELSE 0) + (IF hasText THEN 15 ELSE 0)
                            + 10 * Len(presentImportant) + 5 * Len(otherAttrs) + 10
        matchedFeatures ==
            <<"tag:" \o baselineElement.tagName>>
            \o (IF idMatch THEN <<"id:" \o baselineElement.id[1]>> ELSE <<>>)
            \o [i \in 1..Len(matchedClasses) |-> "class:" \o matchedClasses[i]]
            \o (IF textSimilar THEN <<"text:similar">> ELSE IF textPartial THEN <<"text:partial">> ELSE <<>>)
            \o [i \in 1..Len(matchedImportant) |-> "attr:" \o matchedImportant[i]]
            \o [i \in 1..Len(matchedOther) |-> "attr:" \o matchedOther[i].name]
            \o (IF similarChildren THEN <<"structure:similar-children-count">> ELSE <<>>)
    IN [score |-> IF maxPossibleScore > 0 THEN RMul(totalScore, Rat(1, maxPossibleScore)) ELSE RInt(0),
        matchedFeatures |-> matchedFeatures,
        totalScore |-> totalScore,
        maxPossibleScore |-> maxPossibleScore]

\* Mutant: no early return on different tag names.
calculateSimilarityScoreNoVeto(baselineElement, candidateElement) ==
    IF IsDefined(baselineElement.children) /\ IsDefined(candidateElement.children)
    THEN ScoreSameTag(baselineElement, candidateElement)
    ELSE Vetoed

calculateSimilarityScore(baselineElement, candidateElement) ==
    IF baselineElement.tagName # candidateElement.tagName THEN Vetoed
    ELSE ScoreSameTag(baselineElement, candidateElement)

\* Mutant: the comparator is a.score - b.score, an ascending sort.
RECURSIVE SortByScoreAsc(_)
SortByScoreAsc(seq) ==
    IF Len(seq) <= 1 THEN seq
    ELSE LET init == SortByScoreAsc(SubSeq(seq, 1, Len(seq) - 1))
             last == seq[Len(seq)]
             before == Cardinality({i \in 1..Len(init) : RLeq(init[i].score, last.score)})
         IN SubSeq(init, 1, before) \o <<last>> \o SubSeq(init, before + 1, Len(init))

\* Array.prototype.sort((a, b) => b.score - a.score): stable, descending.
RECURSIVE SortByScoreDesc(_)
SortByScoreDesc(seq) ==
    IF Len(seq) <= 1 THEN seq
    ELSE LET init == SortByScoreDesc(SubSeq(seq, 1, Len(seq) - 1))
             last == seq[Len(seq)]
             before == Cardinality({i \in 1..Len(init) : RLeq(last.score, init[i].score)})
         IN SubSeq(init, 1, before) \o <<last>> \o SubSeq(init, before + 1, Len(init))

scoreElementsThrows(baselineElement, candidateElements) ==
    \E i \in 1..Len(candidateElements) : calculateSimilarityScoreThrows(baselineElement, candidateElements[i])

scoreElements(baselineElement, candidateElements) ==
    SortByScoreDesc([i \in 1..Len(candidateElements) |->
        LET r == calculateSimilarityScore(baselineElement, candidateElements[i])
        IN [element |-> candidateElements[i], score |-> r.score, matchedFeatures |-> r.matchedFeatures,
            totalScore |-> r.totalScore, maxPossibleScore |-> r.maxPossibleScore]])

\* ------------------------------------------------------- finder.ts
getAttributeWeight(attributeName) ==
    LET lower == ToLowerCase(attributeName)
    IN IF lower \in {"name", "data-testid", "data-cy", "data-test"} THEN Rat(8, 10)
       ELSE IF lower \in {"href", "src", "alt", "title", "aria-label"} THEN Rat(7, 10)
       ELSE IF lower \in {"type", "role", "placeholder", "value"} THEN Rat(6, 10)
       ELSE IF StartsWith(attributeName, "data-") THEN Rat(5, 10)
       ELSE Rat(3, 10)

Feature(type, value, weight) == [type |-> type, value |-> value, weight |-> weight]

\* Object.entries(element.attributes) raises a TypeError on undefined.
extractFeaturesThrows(element) == ~IsDefined(element.attributes)

extractFeatures(element) ==
    LET classes == IF Truthy(element.className) THEN ClassTokens(element.className) ELSE <<>>
        attrs == SelectSeq(element.attributes[1], LAMBDA e : e.name # "id" /\ e.name # "class")
    IN (IF Truthy(element.id) THEN <<Feature("id", element.id[1], RInt(1))>> ELSE <<>>)
       \o [i \in 1..Len(classes) |-> Feature("class", classes[i], Rat(7, 10))]
       \o (IF Truthy(element.textContent) THEN <<Feature("text", element.textContent[1], Rat(6, 10))>> ELSE <<>>)
       \o [i \in 1..Len(attrs) |->
              Feature("attribute", attrs[i].name \o "=\"" \o attrs[i].value \o "\"", getAttributeWeight(attrs[i].name))]

\* Whether one feature matches a node (the four cases of the switch).
FeatureMatches(node, feature) ==
    CASE feature.type = "id" -> node.id = Some(feature.value)
      [] feature.type = "class" -> Truthy(node.className) /\ SeqIncludes(SplitWhitespace(node.className[1]), feature.value)
      [] feature.type = "text" -> Truthy(node.textContent) /\ Includes(node.textContent[1], feature.value)
      [] feature.type = "attribute" ->
            LET parts == SplitEquals(feature.value)
                attrName == parts[1]
                attrValue == IF Len(parts) >= 2 /\ parts[2] # "" THEN StripQuotes(parts[2]) ELSE ""
            IN AttrGet(node.attributes[1], attrName) = Some(attrValue)
      [] OTHER -> FALSE

\* node.attributes[attrName] raises a TypeError when attributes is undefined.
countFeatureMatchesThrows(node, features) ==
    /\ ~IsDefined(node.attributes)
    /\ \E i \in 1..Len(features) : features[i].type = "attribute"

RECURSIVE SumWeights(_)
SumWeights(features) == IF Len(features) = 0 THEN RInt(0) ELSE RAdd(Head(features).weight, SumWeights(Tail(features)))

countFeatureMatches(node, features) == SumWeights(SelectSeq(features, LAMBDA f : FeatureMatches(node, f)))

\* Mutant: the tag name is not compared.
IsCandidateAnyTag(node, features, tagName) ==
    IsDefined(node.attributes) /\ RLess(RInt(0), SumWeights(SelectSeq(features, LAMBDA f : FeatureMatches(node, f))))

\* The candidate test of findRecursive for one node.
IsCandidate(node, features, tagName) == node.tagName = tagName /\ RLess(RInt(0), countFeatureMatches(node, features))

RECURSIVE findRecursiveThrows(_, _, _)
findRecursiveThrows(node, features, tagName) ==
    \/ node.tagName = tagName /\ countFeatureMatchesThrows(node, features)
    \/ ~IsDefined(node.children)
    \/ \E i \in 1..Len(node.children[1]) : findRecursiveThrows(node.children[1][i], features, tagName)

RECURSIVE findRecursive(_, _, _)
RECURSIVE findInChildren(_, _, _)
findRecursive(node, features, tagName) ==
    (IF IsCandidate(node, features, tagName) THEN <<node>> ELSE <<>>)
    \o findInChildren(node.children[1], features, tagName)

findInChildren(children, features, tagName) ==
    IF Len(children) = 0 THEN <<>>
    ELSE findRecursive(Head(children), features, tagName) \o findInChildren(Tail(children), features, tagName)

\* rootNode is optional here: healSelector passes current.rootNode as is.
findElementsByFeaturesThrows(rootNode, features, tagName) ==
    ~IsDefined(rootNode) \/ findRecursiveThrows(rootNode[1], features, tagName)

findElementsByFeatures(rootNode, features, tagName) == findRecursive(rootNode[1], features, tagName)

findCandidateElementsThrows(baselineElement, currentRoot) ==
    \/ extractFeaturesThrows(baselineElement)
    \/ findElementsByFeaturesThrows(currentRoot, extractFeatures(baselineElement), baselineElement.tagName)

findCandidateElements(baselineElement, currentRoot) ==
    findElementsByFeatures(currentRoot, extractFeatures(baselineElement), baselineElement.tagName)

\* ------------------------------------------------------- generator.ts
goodAttributes == <<"name", "data-testid", "data-cy", "data-test", "data-automation", "aria-label", "role", "title", "alt", "href", "src", "type", "placeholder", "value", "for">>

isGoodSelectorAttribute(attributeName) == SeqIncludes(goodAttributes, attributeName) \/ StartsWith(attributeName, "data-")

commonClasses == <<"active", "disabled", "selected", "hidden", "visible", "container", "wrapper", "row", "col", "item", "btn", "button", "input", "form", "header", "footer", "content", "panel", "card", "modal", "dialog", "text", "title", "label", "icon", "image", "large", "small", "medium", "primary", "secondary", "success", "error", "warning", "info">>

isCommonClass(className) == SeqIncludes(commonClasses, ToLowerCase(className))

\* The pattern heuristic; rootNode is not read by the code.
estimateSelectorSpecificity(selector) ==
    IF StartsWith(selector, "#") THEN RInt(1)
    ELSE IF Includes(selector, "[data-testid=") \/ Includes(selector, "[data-cy=") THEN Rat(95, 100)
    ELSE IF Includes(selector, "[data-") THEN Rat(9, 10)
    ELSE IF Includes(selector, "[name=") \/ Includes(selector, "[role=") THEN Rat(85, 100)
    ELSE IF StartsWith(selector, "//") THEN Rat(8, 10)
    ELSE IF Includes(selector, ".") /\ Includes(selector, "[") THEN Rat(85, 100)
    ELSE IF Includes(selector, ":contains(") THEN Rat(75, 100)
    ELSE IF Includes(selector, ".") /\ CountDots(selector) > 1 THEN Rat(8, 10)
    ELSE IF Includes(selector, "[") /\ Includes(selector, "=") THEN Rat(75, 100)
    ELSE IF Includes(selector, " > ") THEN Rat(7, 10)
    ELSE IF Includes(selector, " ") THEN Rat(65, 100)
    ELSE IF Includes(selector, ".") THEN Rat(6, 10)
    ELSE Rat(5, 10)

generateCssPath(element) ==
    IF Truthy(element.id) THEN element.tagName \o "#" \o element.id[1]
    ELSE IF Truthy(element.className) /\ Len(ClassTokens(element.className)) > 0
         THEN element.tagName \o "." \o ClassTokens(element.className)[1]
    ELSE element.tagName \o ":nth-child(2)"

\* Length below which a text is used whole in a text predicate.
ShortTextLength == 30

\* Length from which a text gets no text-based selector.
LongTextLength == 100

generateXPath(element) ==
    LET base == "//" \o element.tagName
    IN IF Truthy(element.id) THEN base \o "[@id=\"" \o element.id[1] \o "\"]"
       ELSE IF Truthy(element.className)
            THEN (IF Len(ClassTokens(element.className)) > 0
                  THEN base \o "[contains(@class, \"" \o ClassTokens(element.className)[1] \o "\")]"
                  ELSE base)
       ELSE IF Truthy(element.textContent)
            THEN LET text == Trim(element.textContent[1])
                 IN IF Len(text) < ShortTextLength THEN base \o "[text()=\"" \o text \o "\"]"
                    ELSE base \o "[contains(text(), \"" \o SubstringTo(text, ShortTextLength) \o "\")]"
       ELSE base

GeneratedSelector(value, strategy, specificity) == [value |-> value, strategy |-> strategy, specificity |-> specificity]

\* Mutant: the first entry of a value is kept whatever its specificity.
RECURSIVE removeDuplicateSelectorsKeepFirst(_)
removeDuplicateSelectorsKeepFirst(selectors) ==
    IF Len(selectors) = 0 THEN <<>>
    ELSE LET uniqueSelectors == removeDuplicateSelectorsKeepFirst(SubSeq(selectors, 1, Len(selectors) - 1))
             selector == selectors[Len(selectors)]
         IN IF \E i \in 1..Len(uniqueSelectors) : uniqueSelectors[i].value = selector.value
            THEN uniqueSelectors
            ELSE Append(uniqueSelectors, selector)

\* Mutant: the last entry of a value replaces the earlier one whatever its specificity.
RECURSIVE removeDuplicateSelectorsKeepLast(_)
removeDuplicateSelectorsKeepLast(selectors) ==
    IF Len(selectors) = 0 THEN <<>>
    ELSE LET uniqueSelectors == removeDuplicateSelectorsKeepLast(SubSeq(selectors, 1, Len(selectors) - 1))
             selector == selectors[Len(selectors)]
         IN IF ~\E i \in 1..Len(uniqueSelectors) : uniqueSelectors[i].value = selector.value
            THEN Append(uniqueSelectors, selector)
            ELSE [i \in 1..Len(uniqueSelectors) |->
                     IF uniqueSelectors[i].value = selector.value THEN selector ELSE uniqueSelectors[i]]

\* Map.set while keeping the key's first position.
RECURSIVE removeDuplicateSelectors(_)
removeDuplicateSelectors(selectors) ==
    IF Len(selectors) = 0 THEN <<>>
    ELSE LET uniqueSelectors == removeDuplicateSelectors(SubSeq(selectors, 1, Len(selectors) - 1))
             selector == selectors[Len(selectors)]
         IN IF ~\E i \in 1..Len(uniqueSelectors) : uniqueSelectors[i].value = selector.value
            THEN Append(uniqueSelectors, selector)
            ELSE [i \in 1..Len(uniqueSelectors) |->
                     IF uniqueSelectors[i].value = selector.value
                        /\ RLess(uniqueSelectors[i].specificity, selector.specificity)
                     THEN selector ELSE uniqueSelectors[i]]

\* Mutant: the selectors are left in the order they were generated.
SortBySpecificityMissing(seq) == seq

\* Array.prototype.sort((a, b) => b.specificity - a.specificity): stable.
RECURSIVE SortBySpecificityDesc(_)
SortBySpecificityDesc(seq) ==
    IF Len(seq) <= 1 THEN seq
    ELSE LET init == SortBySpecificityDesc(SubSeq(seq, 1, Len(seq) - 1))
             last == seq[Len(seq)]
             before == Cardinality({i \in 1..Len(init) : RLeq(last.specificity, init[i].specificity)})
         IN SubSeq(init, 1, before) \o <<last>> \o SubSeq(init, before + 1, Len(init))

\* Object.entries(element.attributes) raises a TypeError on undefined.
generateSelectorsThrows(element) == ~IsDefined(element.attributes)

\* Array.prototype.join('') of a list of strings.
RECURSIVE Join(_)
Join(q) == IF Len(q) = 0 THEN "" ELSE Head(q) \o Join(Tail(q))

\* The selectors array of generateSelectors before duplicates are removed.
generateRawSelectors(element) ==
    LET classes == IF Truthy(element.className) THEN ClassTokens(element.className) ELSE <<>>
        combined == IF Len(classes) = 0 THEN <<>>
                    ELSE LET joined == [i \in 1..Len(classes) |-> "." \o classes[i]]
                         IN <<GeneratedSelector(Join(joined), "class-based", estimateSelectorSpecificity(Join(joined)))>>
        singles == IF Len(classes) > 1
                   THEN LET kept == SelectSeq(classes, LAMBDA cls : /\ ~isCommonClass(cls)
                                                                    /\ RLess(Rat(5, 10), estimateSelectorSpecificity("." \o cls)))
                        IN [i \in 1..Len(kept) |->
                               GeneratedSelector("." \o kept[i], "class-based", estimateSelectorSpecificity("." \o kept[i]))]
                   ELSE <<>>
        good == SelectSeq(element.attributes[1], LAMBDA e : e.name # "id" /\ e.name # "class" /\ isGoodSelectorAttribute(e.name))
        AttrSel(e) == "[" \o e.name \o "=\"" \o e.value \o "\"]"
        plain == SelectSeq(good, LAMBDA e : RLess(Rat(7, 10), estimateSelectorSpecificity(AttrSel(e))))
        tagged == SelectSeq(good, LAMBDA e : RLess(Rat(8, 10), estimateSelectorSpecificity(element.tagName \o AttrSel(e))))
        bestIndex == CHOOSE i \in 1..Len(classes) :
                        /\ \A j \in 1..Len(classes) :
                               RLeq(estimateSelectorSpecificity("." \o classes[j]), estimateSelectorSpecificity("." \o classes[i]))
                        /\ \A j \in 1..(i - 1) :
                               RLess(estimateSelectorSpecificity("." \o classes[j]), estimateSelectorSpecificity("." \o classes[i]))
        tagClass == IF Len(classes) = 0 THEN <<>>
                    ELSE LET tagClassSelector == element.tagName \o "." \o classes[bestIndex]
                         IN <<GeneratedSelector(tagClassSelector, "class-based", estimateSelectorSpecificity(tagClassSelector))>>
        textBased == IF Truthy(element.textContent) /\ Len(element.textContent[1]) < LongTextLength
                     THEN LET text == Trim(element.textContent[1])
                              short == Len(text) < ShortTextLength
                              textSelector == element.tagName \o ":contains(\""
                                              \o (IF short THEN text ELSE SubstringTo(text, ShortTextLength)) \o "\")"
                          IN <<GeneratedSelector(textSelector, "text-based",
                                   RMul(estimateSelectorSpecificity(textSelector), IF short THEN Rat(9, 10) ELSE Rat(8, 10)))>>
                     ELSE <<>>
    IN (IF Truthy(element.id) THEN <<GeneratedSelector("#" \o element.id[1], "id-based", RInt(1))>> ELSE <<>>)
       \o combined \o singles
       \o [i \in 1..Len(plain) |-> GeneratedSelector(AttrSel(plain[i]), "attribute", estimateSelectorSpecificity(AttrSel(plain[i])))]
       \o [i \in 1..Len(tagged) |->
              GeneratedSelector(element.tagName \o AttrSel(tagged[i]), "attribute",
                                estimateSelectorSpecificity(element.tagName \o AttrSel(tagged[i])))]
       \o tagClass \o textBased
       \o <<GeneratedSelector(generateCssPath(element), "css-path", Rat(7, 10))>>
       \o <<GeneratedSelector(generateXPath(element), "xpath", Rat(6, 10))>>

generateSelectors(element) == SortBySpecificityDesc(removeDuplicateSelectors(generateRawSelectors(element)))

\* ------------------------------------------------------- index.ts
Null == [kind |-> "null", node |-> Undefined]

Thrown == [kind |-> "throw", node |-> Undefined]

Found(node) == [kind |-> "node", node |-> Some(node)]

\* Depth-first search by id; reading .children of a node that has none
\* raises a TypeError, reported as Thrown.
RECURSIVE findElementById(_, _)
RECURSIVE findElementByIdInChildren(_, _)
\* Mutant: the children are searched before the node itself.
findElementByIdChildrenFirst(node, id) ==
    IF ~IsDefined(node.children) THEN (IF node.id = Some(id) THEN Found(node) ELSE Thrown)
    ELSE LET found == findElementByIdInChildren(node.children[1], id)
         IN IF found.kind # "null" THEN found
            ELSE IF node.id = Some(id) THEN Found(node) ELSE Null

findElementById(node, id) ==
    IF node.id = Some(id) THEN Found(node)
    ELSE IF ~IsDefined(node.children) THEN Thrown
    ELSE findElementByIdInChildren(node.children[1], id)

findElementByIdInChildren(children, id) ==
    IF Len(children) = 0 THEN Null
    ELSE LET found == findElementById(Head(children), id)
         IN IF found.kind # "null" THEN found ELSE findElementByIdInChildren(Tail(children), id)

\* Mutant: the first character is dropped whatever it is.
findElementBySelectorAnyPrefix(rootNode, selector) ==
    IF IsDefined(rootNode) THEN findElementById(rootNode[1], SubstringFrom(selector, 1)) ELSE Thrown

\* rootNode is optional: healSelector passes baseline.rootNode as is.
findElementBySelector(rootNode, selector) ==
    IF StartsWith(selector, "#")
    THEN (IF IsDefined(rootNode) THEN findElementById(rootNode[1], SubstringFrom(selector, 1)) ELSE Thrown)
    ELSE Null

\* Candidates below this score are skipped.
MinCandidateScore == Rat(3, 10)

HealingResult(selector, score, strategy) == [selector |-> selector, score |-> score, strategy |-> strategy, source |-> "local"]

\* The loop over scoredCandidates: whether a generateSelectors call throws.
synthesizeThrows(scored) ==
    \E i \in 1..Len(scored) : ~RLess(scored[i].score, MinCandidateScore) /\ generateSelectorsThrows(scored[i].element)

\* Mutant: the candidate's score is not adjusted by the selector's specificity.
RECURSIVE synthesizeUnadjusted(_)
synthesizeUnadjusted(scored) ==
    IF Len(scored) = 0 THEN <<>>
    ELSE LET candidate == Head(scored)
             selectors == generateSelectors(candidate.element)
         IN (IF RLess(candidate.score, MinCandidateScore) THEN <<>>
             ELSE [i \in 1..Len(selectors) |-> HealingResult(selectors[i].value, candidate.score, selectors[i].strategy)])
            \o synthesizeUnadjusted(Tail(scored))

\* Mutant: a candidate scoring exactly the threshold is skipped too.
RECURSIVE synthesizeSkipAtThreshold(_)
synthesizeSkipAtThreshold(scored) ==
    IF Len(scored) = 0 THEN <<>>
    ELSE LET candidate == Head(scored)
             selectors == generateSelectors(candidate.element)
         IN (IF RLeq(candidate.score, MinCandidateScore) THEN <<>>
             ELSE [i \in 1..Len(selectors) |->
                      HealingResult(selectors[i].value, RMul(candidate.score, selectors[i].specificity), selectors[i].strategy)])
            \o synthesizeSkipAtThreshold(Tail(scored))

\* Mutant: a selector value is emitted for one candidate only.
RECURSIVE synthesizeDistinct(_)
synthesizeDistinct(scored) ==
    IF Len(scored) = 0 THEN <<>>
    ELSE LET candidate == Head(scored)
             selectors == generateSelectors(candidate.element)
             rest == synthesizeDistinct(Tail(scored))
             own == IF RLess(candidate.score, MinCandidateScore) THEN <<>>
                    ELSE [i \in 1..Len(selectors) |->
                             HealingResult(selectors[i].value, RMul(candidate.score, selectors[i].specificity), selectors[i].strategy)]
         IN SelectSeq(own, LAMBDA r : \A k \in 1..Len(rest) : rest[k].selector # r.selector) \o rest

RECURSIVE synthesize(_)
synthesize(scored) ==
    IF Len(scored) = 0 THEN <<>>
    ELSE LET candidate == Head(scored)
             selectors == generateSelectors(candidate.element)
         IN (IF RLess(candidate.score, MinCandidateScore) THEN <<>>
             ELSE [i \in 1..Len(selectors) |->
                      HealingResult(selectors[i].value, RMul(candidate.score, selectors[i].specificity), selectors[i].strategy)])
            \o synthesize(Tail(scored))

\* ------------------------------------------- cyfix-plugin: index.ts
\* The healSelector task registered by cyfix(on, config): it returns the
\* original selector as its only result, whatever the snapshot is.
healSelectorTask(originalSelector, domSnapshot) ==
    <<[selector |-> originalSelector, score |-> RInt(1), strategy |-> "original", source |-> "local"]>>

\* Values of Cypress.env entries.
BoolValue(b) == [type |-> "boolean", bool |-> b, num |-> RInt(0), str |-> ""]

NumValue(r) == [type |-> "number", bool |-> FALSE, num |-> r, str |-> ""]

StrValue(str) == [type |-> "string", bool |-> FALSE, num |-> RInt(0), str |-> str]

UndefinedValue == [type |-> "undefined", bool |-> FALSE, num |-> RInt(0), str |-> ""]

\* Cypress.env(name)
EnvGet(e, name) == IF name \in DOMAIN e THEN e[name] ELSE UndefinedValue

\* Cypress.env(name, value)
EnvSet(e, name, value) == [k \in (DOMAIN e) \cup {name} |-> IF k = name THEN value ELSE e[k]]

\* config.env as cyfix(on, config) leaves it for an empty user env.
PluginEnv == [k \in {"CYFIX_ENABLED", "CYFIX_SERVER_URL"} |->
                 IF k = "CYFIX_ENABLED" THEN BoolValue(TRUE) ELSE StrValue("http://localhost:3000")]

\* ----------------------------------------- cyfix-plugin: support.js
UpperChar(c) == IF \E i \in 1..26 : LowerCase[i] = c THEN UpperCase[CHOOSE i \in 1..26 : LowerCase[i] = c] ELSE c

RECURSIVE ToUpperCase(_)
ToUpperCase(s) ==
    IF Len(s) <= 1 THEN UpperChar(s)
    ELSE ToUpperCase(SubSeq(s, 1, Len(s) \div 2)) \o ToUpperCase(SubSeq(s, Len(s) \div 2 + 1, Len(s)))

Entry(key, value) == [key |-> key, value |-> value]

\* window.CyFix.configure(options): every entry is written to the env under
\* CYFIX_<KEY>.
RECURSIVE configure(_, _)
configure(e, options) ==
    IF Len(options) = 0 THEN e
    ELSE configure(EnvSet(e, "CYFIX_" \o ToUpperCase(Head(options).key), Head(options).value), Tail(options))

disable(e) == EnvSet(e, "CYFIX_ENABLED", BoolValue(FALSE))

enable(e) == EnvSet(e, "CYFIX_ENABLED", BoolValue(TRUE))

\* ----------------------------------------- cyfix-plugin: commands.ts
\* Mutant: the env is not consulted.
HealingSkippedNever(e) == FALSE

\* Cypress.env('CYFIX_ENABLED') === false
HealingSkipped(e) == EnvGet(e, "CYFIX_ENABLED") = BoolValue(FALSE)

\* The two messages the overwritten commands take for element-not-found.
IsNotFoundError(message) == Includes(message, "failed to find element") \/ Includes(message, "could not be found")

Digits(k) == SubSeq("0123456789", k + 1, k + 1)

RECURSIVE IntToString(_)
IntToString(k) == IF k < 10 THEN Digits(k) ELSE IntToString(k \div 10) \o Digits(k % 10)

\* Number.prototype.toFixed(2) of a non-negative rational.
ToFixed2(r) ==
    LET hundredths == (200 * r.n + r.d) \div (2 * r.d)
    IN IntToString(hundredths \div 100) \o "." \o Digits((hundredths % 100) \div 10) \o Digits(hundredths % 10)

HealedMessage(selector, bestMatch) ==
    "Healed selector \"" \o selector \o "\" to \"" \o bestMatch.selector \o "\" (score: " \o ToFixed2(bestMatch.score) \o ")"

\* What the test run observes: calls of the original command, snapshot
\* captures, task invocations and log entries.
Event(op, eventArgs) == [op |-> op, args |-> eventArgs]

\* originalFn(selector, options) for get, originalFn(subject, selector) for find.
OriginalCall(name, subject, selector, options) ==
    IF name = "get" THEN Event("originalFn", <<selector, options>>) ELSE Event("originalFn", <<subject, selector>>)

\* Mutant: the first result as the task returned it.
bestMatchFirstReturned(healingResults) == healingResults[1]

\* [...healingResults].sort((a, b) => b.score - a.score)[0]
bestMatch(healingResults) == SortByScoreDesc(healingResults)[1]

\* ------------------------------------------------------------ input sets
Node(tagName, id, className, attributes, textContent, children) ==
    [tagName |-> tagName, id |-> id, className |-> className, attributes |-> attributes,
     textContent |-> textContent, children |-> children]

Leaf(tagName, id, className, attributes, textContent) == Node(tagName, id, className, Some(attributes), textContent, Some(<<>>))

Button == Leaf("button", Some("submit"), Some("btn primary"), <<>>, Some("Submit"))

Renamed == Leaf("button", Some("submit-button"), Some("btn primary"), <<>>, Some("Submit"))

Foo == Leaf("div", Some("foo"), Some("card main"),
            <<Attr("id", "foo"), Attr("class", "card main"), Attr("data-testid", "foo-card")>>, Some("Hello World"))

Anchor == Leaf("a", Some("submit"), Some("btn primary"), <<Attr("href", "/go?a=b")>>, Some("Submit"))

NoChildren == Node("div", Some("foo"), Some("card"), Some(<<>>), Undefined, Undefined)

NoAttributes == Node("button", Undefined, Some("btn primary"), Undefined, Undefined, Some(<<>>))

Wrapper == Node("form", Undefined, Some("wrapper"), Some(<<>>), Undefined, Some(<<Button>>))

Abc == Leaf("div", Some("abc"), Undefined, <<Attr("title", "t")>>, Some("a b c"))

Abcd == Leaf("div", Undefined, Undefined, <<>>, Some("a b c d"))

Letters == Leaf("div", Undefined, Undefined, <<>>, Some("a b c d e f g h i j"))

\* The elements the trees of healSelector calls are built from.
Elements == {Button, Renamed, Foo, NoChildren, NoAttributes, Wrapper, Abc, Abcd, Letters}

Input1 == Leaf("input", Undefined, Undefined,
               <<Attr("name", "user"), Attr("type", "text"), Attr("value", ""), Attr("data-custom", "x"), Attr("aria-hidden", "true")>>,
               Undefined)

Input2 == Leaf("input", Some(""), Some("  "),
               <<Attr("name", "user"), Attr("type", "password"), Attr("data-custom", "x"), Attr("aria-hidden", "")>>,
               Some(""))

Button3 == Leaf("button", Undefined, Some("btn btn"), <<Attr("role", "button")>>, Some("Submit Form"))

Button4 == Leaf("button", Some("submit"), Some("primary btn extra"), <<Attr("data-cy", "go")>>, Some("  submit form NOW "))

List == Node("div", Undefined, Some("list"), Some(<<>>), Some("a b c d e f"), Some(<<Foo, Foo, Button>>))

Words == Leaf("div", Some("foo"), Undefined, <<>>, Some("a b c d e"))

Paragraph == Leaf("p", Undefined, Undefined, <<Attr("title", "t")>>, Some("This text has more than thirty characters"))

Essay == Leaf("p", Undefined, Undefined, <<>>,
              Some("This text has one hundred characters or more, so that no text-based selector is generated for it at all."))

Link == Leaf("a", Undefined, Undefined, <<Attr("href", "/go?a=b")>>, Undefined)

LinkShort == Leaf("a", Undefined, Undefined, <<Attr("href", "/go?a")>>, Undefined)

Quoted == Leaf("a", Undefined, Undefined, <<Attr("title", "\"x"), Attr("alt", "")>>, Undefined)

\* An element whose only class is a utility class with a bracketed value.
Sized == Leaf("div", Undefined, Some("w-[100px]"), <<>>, Undefined)

\* The nodes the component functions are called with.
Nodes == Elements \cup {Anchor, Input1, Input2, Button3, Button4, List, Words, Paragraph, Essay, Link, LinkShort, Quoted, Sized}

Texts == {"", " ", "Submit", "submit", " Submit  Form ", "Submit Form Now", "form\tsubmit", "a b c d e", "a b c d e f", "Hello World"}

Locators == {"#foo", "#submit", "#abc", "#submit.btn", ".some-class", ".foo"}

SeqsUpTo(S, n) == UNION {[1..k -> S] : k \in 0..n}

Root(children) == Node("body", Undefined, Undefined, Some(<<>>), Undefined, Some(children))

Snapshot(rootNode) == [rootNode |-> rootNode]

MalformedSnapshots == {Undefined, Some(Snapshot(Undefined))}

\* An element that holds another element of the same id.
Nested == Node("div", Some("submit"), Undefined, Some(<<>>), Undefined, Some(<<Button>>))

\* The elements of baseline trees: those a test's locator can resolve to,
\* alone or inside a wrapper.
BaselineElements == {Button, Foo, NoChildren, Wrapper, Abc, Nested}

BaselineSnapshots == MalformedSnapshots \cup {Some(Snapshot(Some(Root(ch)))) : ch \in SeqsUpTo(BaselineElements, MaxBaselineChildren)}

CurrentSnapshots == MalformedSnapshots \cup {Some(Snapshot(Some(Root(ch)))) : ch \in SeqsUpTo(Elements, MaxCurrentChildren)}

\* The trees findCandidateElements is called with.
FindRoots == {snapshot[1].rootNode[1] : snapshot \in CurrentSnapshots \ MalformedSnapshots}
                 \cup {Root(<<Link, LinkShort>>), Root(<<Quoted, Anchor>>)}

CandidateLists == SeqsUpTo(Elements \cup {Button3, Button4, Input1, Input2}, MaxCandidates) \ {<<>>}

\* ---- inputs of the overwritten commands
MaxTaskResults == 2

\* The document the commands run against.
Page == Root(<<Renamed>>)

\* captureDOMSnapshot(): the serialized document body.
captureDOMSnapshot == Snapshot(Some(Page))

Selectors == {"#submit", ".btn"}

Subjects == {"form"}

Options == {"{}"}

ErrorMessages == {"cy.get() failed to find element: #submit",
                  "Element could not be found",
                  "Timed out retrying after 4000ms: Expected to find element, but never found it.",
                  "cy.click() failed because this element is detached from the DOM"}

\* What a call of the original command does: it returns a chainable that
\* resolves or rejects, or it throws.
Reaction(kind, message) == [kind |-> kind, message |-> message]

Reactions == {Reaction("resolved", "")} \cup {Reaction(kind, m) : kind \in {"rejected", "thrown"}, m \in ErrorMessages}

\* Results a healSelector task may hand back to the browser.
TaskResult(selector, score) == [selector |-> selector, score |-> score, strategy |-> "class-based", source |-> "local"]

TaskResults == {TaskResult(sel, sc) : sel \in {".btn.primary", "#submit-button"}, sc \in {Rat(1, 2), Rat(9, 10)}}

TaskResultLists == SeqsUpTo(TaskResults, MaxTaskResults)

ConfigureOptions == {<<Entry("minScore", NumValue(Rat(7, 10)))>>,
                     <<Entry("enabled", BoolValue(FALSE))>>,
                     <<Entry("enabled", BoolValue(TRUE)), Entry("minScore", NumValue(Rat(1, 2)))>>}

\* -------------------------------------------------- cyfix-core: index
\* healSelector as its callers see it: the sorted results, or [] after an
\* early return or a caught error.  baseline and current are snapshots.
\* Steps 3 and 4: synthesize for the scored candidates and sort.
healScored(scored) ==
    IF synthesizeThrows(scored) THEN <<>> ELSE SortByScoreDesc(synthesize(scored))

\* Step 2: score the candidates, when there are any.
healCandidates(element, candidates) ==
    IF Len(candidates) = 0 \/ scoreElementsThrows(element, candidates) THEN <<>>
    ELSE healScored(scoreElements(element, candidates))

\* Step 1: look for candidates in the current page.
healFound(found, current) ==
    IF found.kind # "node" THEN <<>>
    ELSE IF findCandidateElementsThrows(found.node[1], current.rootNode) THEN <<>>
    ELSE healCandidates(found.node[1], findCandidateElements(found.node[1], current.rootNode))

healSelector(originalSelector, baseline, current) ==
    healFound(findElementBySelector(baseline.rootNode, originalSelector), current)

\* ----------------------------------------- cyfix-server: database.ts
\* The number of row ids the database file hands out, over its tables.
MaxRowId == 2

\* The highest value Date.now() takes.
MaxClock == 1

NotInitialized == "Database not initialized"

\* An error of the sqlite driver: a table that does not exist yet, a handle
\* that is being closed.
DriverError == "SQLITE_ERROR"

\* The error of a statement that breaks FOREIGN KEY (dom_snapshot_id).
ConstraintError == "SQLITE_CONSTRAINT: FOREIGN KEY constraint failed"

\* The Database object: db tells whether this.db is set, pending is the
\* position of the initialize() or close() call in flight.
NewDatabase == [db |-> FALSE, pending |-> "idle"]

\* The file at dbPath: whether the tables exist, the last row id each table
\* gave out (AUTOINCREMENT), and the rows of each table in rowid order.
NewFile ==
    [schema |-> FALSE,
     sequence |-> [dom_snapshots |-> 0, selectors |-> 0, healing_records |-> 0],
     dom_snapshots |-> <<>>, selectors |-> <<>>, healing_records |-> <<>>]

\* CREATE TABLE IF NOT EXISTS, CREATE INDEX IF NOT EXISTS.
createTables(f) == [f EXCEPT !.schema = TRUE]

\* Mutant: operations are refused until initialize() has created the tables.
guardUntilTablesCreated(d) == ~d.db \/ d.pending = "creating"

\* if (!this.db) throw new Error('Database not initialized')
guard(d) == ~d.db

\* What a statement of an operation can do: refused by the guard, failed in
\* the driver, or carried out.  Between open() and the end of createTables()
\* the handle is set; if the file had no tables the statement finds them
\* only when the driver runs it after CREATE TABLE.  While close() is
\* awaited the handle is still set and the driver may run the statement or
\* refuse it.
Outcomes(d, f) ==
    IF guard(d) THEN {"refused"}
    ELSE IF d.pending = "creating" THEN (IF f.schema THEN {"done"} ELSE {"done", "failed"})
    ELSE IF d.pending = "closing" THEN {"done", "failed"}
    ELSE {"done"}

ErrorOf(effect) == IF effect = "refused" THEN NotInitialized ELSE DriverError

\* The permutations of 1..n.
Arrangements(n) == {p \in [1..n -> 1..n] : \A i \in 1..n : \A j \in 1..n : i # j => p[i] # p[j]}

\* ORDER BY: every arrangement of the rows in which no row comes after a row
\* it precedes; rows that tie come in any order.
OrderBy(rows, Precedes(_, _)) ==
    {[k \in 1..Len(rows) |-> rows[p[k]]] :
        p \in {q \in Arrangements(Len(rows)) : \A k \in 1..(Len(rows) - 1) : ~Precedes(rows[q[k + 1]], rows[q[k]])}}

\* JSON.stringify(snapshot): the text kept in dom_data.  A snapshot holds
\* strings, numbers, arrays and plain objects only; a property that is
\* undefined is left out of the text.
stringify(snapshot) == [json |-> snapshot]

\* JSON.parse(dom_data): a property left out of the text reads as undefined.
parse(text) == text.json

\* INSERT OR REPLACE on UNIQUE (test_id, timestamp) deletes the row it
\* conflicts with; the statement fails when a selector refers to that row.
storeDOMSnapshotFails(f, testId, snapshot) ==
    \E i \in 1..Len(f.dom_snapshots) :
        /\ f.dom_snapshots[i].test_id = testId /\ f.dom_snapshots[i].timestamp = snapshot.timestamp
        /\ \E j \in 1..Len(f.selectors) : f.selectors[j].dom_snapshot_id = f.dom_snapshots[i].id

storeDOMSnapshot(f, testId, snapshot) ==
    LET lastID == f.sequence.dom_snapshots + 1
        kept == SelectSeq(f.dom_snapshots, LAMBDA r : ~(r.test_id = testId /\ r.timestamp = snapshot.timestamp))
        row == [id |-> lastID, test_id |-> testId, url |-> snapshot.url, title |-> snapshot.title,
                timestamp |-> snapshot.timestamp, dom_data |-> stringify(snapshot)]
    IN [f EXCEPT !.dom_snapshots = Append(kept, row), !.sequence.dom_snapshots = lastID]

\* ORDER BY timestamp DESC LIMIT 1, null when the test has no snapshot.
getLatestDOMSnapshot(f, testId) ==
    LET rows == SelectSeq(f.dom_snapshots, LAMBDA r : r.test_id = testId)
    IN IF Len(rows) = 0 THEN Undefined
       ELSE Some(CHOOSE r \in Range(rows) : \A other \in Range(rows) : other.timestamp <= r.timestamp)

\* The row must refer to a stored snapshot.
storeSelectorFails(f, domSnapshotId) == \A i \in 1..Len(f.dom_snapshots) : f.dom_snapshots[i].id # domSnapshotId

\* INSERT OR REPLACE on UNIQUE (test_id, selector).
storeSelector(f, testId, selector, domSnapshotId, timestamp) ==
    LET lastID == f.sequence.selectors + 1
        kept == SelectSeq(f.selectors, LAMBDA r : ~(r.test_id = testId /\ r.selector = selector))
        row == [id |-> lastID, test_id |-> testId, selector |-> selector, timestamp |-> timestamp,
                dom_snapshot_id |-> domSnapshotId]
    IN [f EXCEPT !.selectors = Append(kept, row), !.sequence.selectors = lastID]

\* WHERE test_id = ? ORDER BY timestamp DESC: the orders the query may give.
getSelectors(f, testId) ==
    OrderBy(SelectSeq(f.selectors, LAMBDA r : r.test_id = testId), LAMBDA a, b : a.timestamp > b.timestamp)

\* success ? 1 : 0 and testId || null.
storeHealingRecord(f, originalSelector, healedSelector, score, strategy, success, url, testId, timestamp) ==
    LET lastID == f.sequence.healing_records + 1
        row == [id |-> lastID, original_selector |-> originalSelector, healed_selector |-> healedSelector,
                score |-> score, strategy |-> strategy, timestamp |-> timestamp,
                success |-> IF success THEN 1 ELSE 0,
                test_id |-> IF Truthy(testId) THEN testId ELSE Undefined, url |-> url]
    IN [f EXCEPT !.healing_records = Append(@, row), !.sequence.healing_records = lastID]

\* Mutant: the outcome of the healing is not looked at.
isSuggestionAnyOutcome(record, originalSelector, url) ==
    /\ record.original_selector = originalSelector
    /\ Truthy(url) => record.url = url[1]

\* WHERE original_selector = ? AND success = 1, and AND url = ? when url is
\* truthy.
isSuggestion(record, originalSelector, url) ==
    /\ record.original_selector = originalSelector
    /\ record.success = 1
    /\ Truthy(url) => record.url = url[1]

\* ORDER BY score DESC, timestamp DESC: the orders the query may give.
getHealingSuggestions(f, originalSelector, url) ==
    OrderBy(SelectSeq(f.healing_records, LAMBDA r : isSuggestion(r, originalSelector, url)),
            LAMBDA a, b : RLess(b.score, a.score) \/ (a.score = b.score /\ a.timestamp > b.timestamp))

\* The counts of getHealingStats; byStrategy and byTest are given as the
\* groups with their counts, without their order.
getHealingStats(f) ==
    LET all == f.healing_records
        successful == SelectSeq(all, LAMBDA r : r.success = 1)
    IN [total |-> Len(all),
        successful |-> Len(successful),
        successRate |-> IF Len(all) # 0 THEN Rat(Len(successful), Len(all)) ELSE RInt(0),
        byStrategy |-> {[strategy |-> s, count |-> Len(SelectSeq(successful, LAMBDA r : r.strategy = s))] :
                           s \in {r.strategy : r \in Range(successful)}},
        byTest |-> {[test_id |-> t, count |-> Len(SelectSeq(all, LAMBDA r : r.test_id = t))] :
                       t \in {r.test_id : r \in Range(all)}}]

\* ------------------------------------------------ inputs of the server
PageSnapshot(url, timestamp, rootNode) ==
    [url |-> url, title |-> Some("Login"), timestamp |-> timestamp, rootNode |-> Some(rootNode)]

\* The page when the test was written and the page as it is now.
BaselinePage == PageSnapshot("/login", 1, Root(<<Button>>))

CurrentPage == PageSnapshot("/login", 2, Root(<<Renamed>>))

StoredSnapshots == {BaselinePage}

TestIds == {"login-test"}

\* The healings that get reported: originalSelector, healedSelector, score,
\* strategy, success, url, testId.
Healing(originalSelector, healedSelector, score, strategy, success, url, testId) ==
    [originalSelector |-> originalSelector, healedSelector |-> healedSelector, score |-> score, strategy |-> strategy,
     success |-> success, url |-> url, testId |-> testId]

Healings ==
    {Healing("#submit", ".btn.primary", Rat(9, 10), "class-based", TRUE, "/login", Some("login-test")),
     Healing("#submit", "button.btn", Rat(1, 2), "class-based", TRUE, "/login", Undefined),
     Healing("#submit", "//button", Rat(3, 5), "xpath", FALSE, "/login", Some("login-test")),
     Healing("#submit", ".btn.primary", Rat(4, 5), "class-based", TRUE, "/home", Undefined)}

\* Bodies of POST /report: a healing that worked, one that did not, and one
\* without its url.
ReportBody(h) ==
    [originalSelector |-> Some(h.originalSelector), healedSelector |-> Some(h.healedSelector), score |-> Some(h.score),
     strategy |-> Some(h.strategy), success |-> Some(h.success), url |-> Some(h.url), testId |-> h.testId]

ReportBodies ==
    {ReportBody(h) : h \in {g \in Healings : g.url = "/login" /\ g.healedSelector \in {"button.btn", "//button"}}}
        \cup {[ReportBody(h) EXCEPT !.url = Undefined] : h \in {g \in Healings : g.healedSelector = "button.btn"}}

\* Bodies of POST /heal.
HealBody(originalSelector, domSnapshot, testId, context) ==
    [originalSelector |-> originalSelector, domSnapshot |-> domSnapshot, testId |-> testId, context |-> context]

HealBodies ==
    {HealBody(Some("#submit"), Some(CurrentPage), Some("login-test"), Some([url |-> Some("/login")])),
     HealBody(Some("#submit"), Some(CurrentPage), Some("login-test"), Undefined),
     HealBody(Some("#submit"), Some(CurrentPage), Some("login-test"), Some([url |-> Some("")])),
     HealBody(Some("#submit"), Undefined, Some("login-test"), Some([url |-> Some("/login")]))}

\* The url argument of getHealingSuggestions and the query of GET /suggestions.
SuggestionUrls == {Undefined, Some(""), Some("/login")}

SuggestionQueries ==
    {[selector |-> Some("#submit"), url |-> url] : url \in SuggestionUrls}
        \cup {[selector |-> Some("#cancel"), url |-> Undefined], [selector |-> Undefined, url |-> Some("/login")]}

\* ------------------------------------ cyfix-server: routes/healing.ts
\* What an operation or a request handler answered: a promise that resolved
\* or rejected, or the status and body of an HTTP response.  calls lists the
\* database operations and healSelector calls a handler made.
Reply(op, request, status, error, value, calls) ==
    [op |-> op, request |-> request, status |-> status, error |-> error, value |-> value, calls |-> calls]

NoReply == Reply("none", <<>>, "none", "", <<>>, <<>>)

\* Mutant: stored healings are never used.
existingHealingsIgnored(existingHealings) == FALSE

\* if (existingHealings.length > 0)
existingHealingsFound(existingHealings) == Len(existingHealings) > 0

\* results.map(result => ({ ...result, source: 'server' }))
fromServer(results) == [i \in 1..Len(results) |-> [results[i] EXCEPT !.source = "server"]]

\* The same with score: result.score * 0.8, for results found without a
\* baseline.
fromServerWithoutBaseline(results) ==
    [i \in 1..Len(results) |-> [results[i] EXCEPT !.source = "server", !.score = RMul(@, Rat(8, 10))]]

\* if (existingHealings.length > 0): the stored healings as results.
fromHistory(existingHealings) ==
    IF existingHealingsFound(existingHealings)
    THEN [i \in 1..Len(existingHealings) |->
             [selector |-> existingHealings[i].healed_selector, score |-> existingHealings[i].score,
              strategy |-> existingHealings[i].strategy, source |-> "server"]]
    ELSE <<>>

\* if (healingResults.length === 0 && testId): heal against the stored
\* baseline of the test, when there is one.
withBaseline(body, f, healed) ==
    IF Len(healed.results) = 0 /\ Truthy(body.testId)
    THEN LET baselineRecord == getLatestDOMSnapshot(f, body.testId[1])
         IN IF IsDefined(baselineRecord)
            THEN [results |-> fromServer(healSelector(body.originalSelector[1], parse(baselineRecord[1].dom_data),
                                                      body.domSnapshot[1])),
                  calls |-> healed.calls \o <<"db.getLatestDOMSnapshot", "healSelector">>]
            ELSE [healed EXCEPT !.calls = @ \o <<"db.getLatestDOMSnapshot">>]
    ELSE healed

\* if (healingResults.length === 0): heal with the current page as its own
\* baseline.
withFallback(body, healed) ==
    IF Len(healed.results) = 0
    THEN [results |-> fromServerWithoutBaseline(healSelector(body.originalSelector[1], body.domSnapshot[1],
                                                             body.domSnapshot[1])),
          calls |-> healed.calls \o <<"healSelector">>]
    ELSE healed

\* The results of POST /heal for a valid body when every database call is
\* carried out, and the calls made after getHealingSuggestions;
\* existingHealings is what getHealingSuggestions gave, or [] when it was
\* not called.
healResults(body, f, existingHealings) ==
    withFallback(body, withBaseline(body, f, [results |-> fromHistory(existingHealings), calls |-> <<>>]))

\* ------------------------------------------------------------- variables
VARIABLES call, pc, args, baselineElement, candidateElements, scoredCandidates, selectors, results, phases, loggedError, outcome, returned,
          env, switched, cmd, events,
          database, file, now, reply

vars == <<call, pc, args, baselineElement, candidateElements, scoredCandidates, selectors, results, phases, loggedError, outcome, returned,
          env, switched, cmd, events, database, file, now, reply>>

\* The state of the core library's call frame.
core == <<call, pc, args, baselineElement, candidateElements, scoredCandidates, selectors, results, phases, loggedError, outcome, returned>>

\* The state of the browser side: the Cypress env, the last call on
\* window.CyFix, the command being run and what it has done so far.
plugin == <<env, switched, cmd, events>>

\* The state of the server: the Database object, the file it opens, the
\* clock, and the answer to the last operation or request.
server == <<database, file, now, reply>>

\* No command is running.
NoCommand ==
    [name |-> "none", pc |-> "idle", subject |-> "", selector |-> "", options |-> "", reaction |-> Reaction("none", ""),
     error |-> Undefined, domSnapshot |-> Undefined, task |-> "none", results |-> <<>>,
     retry |-> Reaction("none", ""), settled |-> Reaction("none", "")]

locals == <<baselineElement, candidateElements, scoredCandidates, selectors, results>>

Init ==
    /\ call = "none"
    /\ pc = "idle"
    /\ args = <<>>
    /\ baselineElement = Undefined
    /\ candidateElements = <<>>
    /\ scoredCandidates = <<>>
    /\ selectors = <<>>
    /\ results = <<>>
    /\ phases = <<>>
    /\ loggedError = "none"
    /\ outcome = "none"
    /\ returned = <<>>
    /\ env = PluginEnv
    /\ switched = "none"
    /\ cmd = NoCommand
    /\ events = <<>>
    /\ database = NewDatabase
    /\ file = NewFile
    /\ now = 0
    /\ reply = NoReply

\* ---------------------------------------------------------- healSelector
HealCall(originalSelector, baseline, current) ==
    /\ call = "none"
    /\ call' = "healSelector"
    /\ pc' = "resolve"
    /\ args' = [originalSelector |-> originalSelector, baseline |-> baseline, current |-> current]
    /\ UNCHANGED <<locals, phases, loggedError, outcome, returned>>

\* Mutant: no catch block, the error rejects the promise.
HealCatchMissing(phase) ==
    /\ pc' = "done"
    /\ loggedError' = "none"
    /\ outcome' = "thrown"
    /\ returned' = <<>>

\* The catch block: the error is logged and the call resolves with [].
HealCatch(phase) ==
    /\ pc' = "done"
    /\ loggedError' = phase
    /\ outcome' = "returned"
    /\ returned' = <<>>

\* An early `return []`.
HealReturnEmpty ==
    /\ pc' = "done"
    /\ outcome' = "returned"
    /\ returned' = <<>>
    /\ UNCHANGED loggedError

HealResolve ==
    /\ call = "healSelector" /\ pc = "resolve"
    /\ phases' = Append(phases, "resolve")
    /\ UNCHANGED <<call, args, candidateElements, scoredCandidates, selectors, results>>
    /\ IF ~IsDefined(args.baseline)
       THEN HealCatch("resolve") /\ UNCHANGED baselineElement
       ELSE LET found == findElementBySelector(args.baseline[1].rootNode, args.originalSelector)
            IN CASE found.kind = "throw" -> HealCatch("resolve") /\ UNCHANGED baselineElement
                 [] found.kind = "null" -> HealReturnEmpty /\ UNCHANGED baselineElement
                 [] OTHER -> /\ baselineElement' = found.node
                             /\ pc' = "find"
                             /\ UNCHANGED <<loggedError, outcome, returned>>

\* Mutant: an empty candidate list does not end the call.
HealFindNoEarlyReturn ==
    /\ call = "healSelector" /\ pc = "find"
    /\ phases' = Append(phases, "find")
    /\ UNCHANGED <<call, args, baselineElement, scoredCandidates, selectors, results>>
    /\ IF ~IsDefined(args.current) \/ findCandidateElementsThrows(baselineElement[1], args.current[1].rootNode)
       THEN HealCatch("find") /\ UNCHANGED candidateElements
       ELSE /\ candidateElements' = findCandidateElements(baselineElement[1], args.current[1].rootNode)
            /\ pc' = "score"
            /\ UNCHANGED <<loggedError, outcome, returned>>

HealFind ==
    /\ call = "healSelector" /\ pc = "find"
    /\ phases' = Append(phases, "find")
    /\ UNCHANGED <<call, args, baselineElement, scoredCandidates, selectors, results>>
    /\ IF ~IsDefined(args.current) \/ findCandidateElementsThrows(baselineElement[1], args.current[1].rootNode)
       THEN HealCatch("find") /\ UNCHANGED candidateElements
       ELSE LET found == findCandidateElements(baselineElement[1], args.current[1].rootNode)
            IN /\ candidateElements' = found
               /\ IF Len(found) = 0 THEN HealReturnEmpty
                  ELSE pc' = "score" /\ UNCHANGED <<loggedError, outcome, returned>>

HealScore ==
    /\ call = "healSelector" /\ pc = "score"
    /\ phases' = Append(phases, "score")
    /\ UNCHANGED <<call, args, baselineElement, candidateElements, selectors, results>>
    /\ IF scoreElementsThrows(baselineElement[1], candidateElements)
       THEN HealCatch("score") /\ UNCHANGED scoredCandidates
       ELSE /\ scoredCandidates' = scoreElements(baselineElement[1], candidateElements)
            /\ pc' = "synthesize"
            /\ UNCHANGED <<loggedError, outcome, returned>>

HealSynthesize ==
    /\ call = "healSelector" /\ pc = "synthesize"
    /\ phases' = Append(phases, "synthesize")
    /\ UNCHANGED <<call, args, baselineElement, candidateElements, scoredCandidates, selectors>>
    /\ IF synthesizeThrows(scoredCandidates)
       THEN HealCatch("synthesize") /\ UNCHANGED results
       ELSE /\ results' = synthesize(scoredCandidates)
            /\ pc' = "rank"
            /\ UNCHANGED <<loggedError, outcome, returned>>

\* Mutant: the results are returned in the order they were emitted.
HealRankUnsorted ==
    /\ call = "healSelector" /\ pc = "rank"
    /\ phases' = Append(phases, "rank")
    /\ pc' = "done"
    /\ outcome' = "returned"
    /\ returned' = results
    /\ UNCHANGED <<call, args, locals, loggedError>>

HealRank ==
    /\ call = "healSelector" /\ pc = "rank"
    /\ phases' = Append(phases, "rank")
    /\ results' = SortByScoreDesc(results)
    /\ pc' = "done"
    /\ outcome' = "returned"
    /\ returned' = results'
    /\ UNCHANGED <<call, args, baselineElement, candidateElements, scoredCandidates, selectors, loggedError>>

\* ------------------------------------------ calls of the other exports
FindCall(reference, rootNode) ==
    /\ call = "none"
    /\ call' = "findCandidateElements"
    /\ pc' = "done"
    /\ args' = [baselineElement |-> reference, currentRoot |-> rootNode]
    /\ IF findCandidateElementsThrows(reference, Some(rootNode))
       THEN outcome' = "thrown" /\ returned' = <<>>
       ELSE outcome' = "returned" /\ returned' = findCandidateElements(reference, Some(rootNode))
    /\ UNCHANGED <<locals, phases, loggedError>>

ScoreCall(reference, candidates) ==
    /\ call = "none"
    /\ call' = "scoreElements"
    /\ pc' = "done"
    /\ args' = [baselineElement |-> reference, candidateElements |-> candidates]
    /\ IF scoreElementsThrows(reference, candidates)
       THEN outcome' = "thrown" /\ returned' = <<>>
       ELSE outcome' = "returned" /\ returned' = scoreElements(reference, candidates)
    /\ UNCHANGED <<locals, phases, loggedError>>

GenerateCall(element) ==
    /\ call = "none"
    /\ call' = "generateSelectors"
    /\ pc' = "done"
    /\ args' = [element |-> element]
    /\ IF generateSelectorsThrows(element)
       THEN outcome' = "thrown" /\ returned' = <<>> /\ UNCHANGED selectors
       ELSE /\ outcome' = "returned"
            /\ selectors' = generateRawSelectors(element)
            /\ returned' = generateSelectors(element)
    /\ UNCHANGED <<baselineElement, candidateElements, scoredCandidates, results, phases, loggedError>>

TextSimilarityCall(text1, text2) ==
    /\ call = "none"
    /\ call' = "calculateTextSimilarity"
    /\ pc' = "done"
    /\ args' = [text1 |-> text1, text2 |-> text2]
    /\ outcome' = "returned"
    /\ returned' = calculateTextSimilarity(text1, text2)
    /\ UNCHANGED <<locals, phases, loggedError>>

\* The call is over: its frame is dropped.
Return ==
    /\ call # "none" /\ pc = "done"
    /\ call' = "none"
    /\ pc' = "idle"
    /\ args' = <<>>
    /\ baselineElement' = Undefined
    /\ candidateElements' = <<>>
    /\ scoredCandidates' = <<>>
    /\ selectors' = <<>>
    /\ results' = <<>>
    /\ phases' = <<>>
    /\ loggedError' = "none"
    /\ outcome' = "none"
    /\ returned' = <<>>

\* -------------------------------------------- the overwritten commands
\* handleHealingForSelector / handleHealingForSubject up to the task call:
\* the document is captured and the healSelector task is invoked.
StartHealing(frame, seen, message) ==
    /\ cmd' = [frame EXCEPT !.pc = "task", !.error = Some(message), !.domSnapshot = Some(captureDOMSnapshot)]
    /\ events' = seen \o <<Event("captureDOMSnapshot", <<>>), Event("task", <<"healSelector", frame.selector>>)>>

\* The command is over with the given outcome.
Settle(frame, seen, reaction) ==
    /\ cmd' = [frame EXCEPT !.pc = "done", !.settled = reaction]
    /\ events' = seen

\* The overwrite of get or find is run: the original command is called, and
\* unless healing is skipped its result gets a patched then().
CommandCall(name, subject, selector, options, reaction) ==
    /\ cmd.name = "none"
    /\ LET frame == [NoCommand EXCEPT !.name = name, !.subject = subject, !.selector = selector,
                                       !.options = options, !.reaction = reaction]
           first == <<OriginalCall(name, subject, selector, options)>>
       IN IF HealingSkipped(env) THEN Settle(frame, first, reaction)
          ELSE IF reaction.kind = "thrown"
               THEN (IF IsNotFoundError(reaction.message) THEN StartHealing(frame, first, reaction.message)
                     ELSE Settle(frame, first, reaction))
               ELSE cmd' = [frame EXCEPT !.pc = "pending"] /\ events' = first
    /\ UNCHANGED <<env, switched>>

GetCommand(selector, options, reaction) == CommandCall("get", "", selector, options, reaction)

FindCommand(subject, selector, options, reaction) == CommandCall("find", subject, selector, options, reaction)

\* The patched then() of the result is called, with or without a reject
\* callback, and the result settles.
ThenCall(hasRejectCallback) ==
    /\ cmd.pc = "pending"
    /\ IF cmd.reaction.kind = "resolved" THEN Settle(cmd, events, cmd.reaction)
       ELSE IF hasRejectCallback THEN Settle(cmd, events, Reaction("handled", cmd.reaction.message))
       ELSE IF IsNotFoundError(cmd.reaction.message) THEN StartHealing(cmd, events, cmd.reaction.message)
       ELSE Settle(cmd, events, cmd.reaction)
    /\ UNCHANGED <<env, switched>>

\* The task registered by the plugin answers.
HealSelectorTask ==
    /\ cmd.pc = "task"
    /\ cmd' = [cmd EXCEPT !.pc = "then", !.task = "cyfix", !.results = healSelectorTask(cmd.selector, cmd.domSnapshot[1])]
    /\ events' = Append(events, Event("console.log", <<"Attempting to heal selector: " \o cmd.selector>>))
    /\ UNCHANGED <<env, switched>>

\* Another handler registered for the healSelector task answers.
OtherTask(healingResults) ==
    /\ cmd.pc = "task"
    /\ cmd' = [cmd EXCEPT !.pc = "then", !.task = "other", !.results = healingResults]
    /\ UNCHANGED <<env, switched, events>>

\* Mutant: with no result the chain resolves and the error is lost.
HealingThenSwallows(retry) ==
    /\ cmd.pc = "then"
    /\ IF Len(cmd.results) > 0
       THEN LET best == bestMatch(cmd.results)
            IN Settle([cmd EXCEPT !.retry = retry],
                      events \o <<Event("log", <<HealedMessage(cmd.selector, best)>>),
                                  OriginalCall(cmd.name, cmd.subject, best.selector, cmd.options)>>,
                      retry)
       ELSE Settle(cmd, events, Reaction("resolved", ""))
    /\ UNCHANGED <<env, switched>>

\* Mutant: the retry goes through the overwritten command, which heals a
\* not-found failure of the healed selector once more.
HealingThenHealsAgain(retry) ==
    /\ cmd.pc = "then"
    /\ IF Len(cmd.results) > 0
       THEN LET best == bestMatch(cmd.results)
                seen == events \o <<Event("log", <<HealedMessage(cmd.selector, best)>>),
                                    OriginalCall(cmd.name, cmd.subject, best.selector, cmd.options)>>
            IN IF /\ retry.kind # "resolved" /\ IsNotFoundError(retry.message)
                  /\ Len(SelectSeq(events, LAMBDA e : e.op = "task")) < 2
               THEN StartHealing([cmd EXCEPT !.retry = retry], seen, retry.message)
               ELSE Settle([cmd EXCEPT !.retry = retry], seen, retry)
       ELSE Settle(cmd, events, Reaction("rejected", cmd.error[1]))
    /\ UNCHANGED <<env, switched>>

\* The callback given to cy.task(...).then: the best result is logged and
\* the original command is called with it, or the original error is thrown.
\* retry is what the original command does with the healed selector.
HealingThen(retry) ==
    /\ cmd.pc = "then"
    /\ IF Len(cmd.results) > 0
       THEN LET best == bestMatch(cmd.results)
            IN Settle([cmd EXCEPT !.retry = retry],
                      events \o <<Event("log", <<HealedMessage(cmd.selector, best)>>),
                                  OriginalCall(cmd.name, cmd.subject, best.selector, cmd.options)>>,
                      retry)
       ELSE Settle(cmd, events, Reaction("rejected", cmd.error[1]))
    /\ UNCHANGED <<env, switched>>

\* The command is over: its frame is dropped.
CommandReturn ==
    /\ cmd.pc = "done"
    /\ cmd' = NoCommand
    /\ events' = <<>>
    /\ UNCHANGED <<env, switched>>

\* ------------------------------------------------------- window.CyFix
Configure(options) ==
    /\ cmd.name = "none"
    /\ env' = configure(env, options)
    /\ switched' = "configure"
    /\ UNCHANGED <<cmd, events>>

Disable ==
    /\ cmd.name = "none"
    /\ env' = disable(env)
    /\ switched' = "disable"
    /\ UNCHANGED <<cmd, events>>

Enable ==
    /\ cmd.name = "none"
    /\ env' = enable(env)
    /\ switched' = "enable"
    /\ UNCHANGED <<cmd, events>>

\* ------------------------------------------------ predicates on inputs
RECURSIVE WellFormed(_)
WellFormed(node) ==
    /\ IsDefined(node.attributes)
    /\ IsDefined(node.children)
    /\ \A i \in 1..Len(node.children[1]) : WellFormed(node.children[1][i])

\* Every node of a tree, a missing children list counting as empty.
RECURSIVE NodesOf(_)
NodesOf(node) ==
    {node} \cup (IF IsDefined(node.children) THEN UNION {NodesOf(node.children[1][i]) : i \in 1..Len(node.children[1])} ELSE {})

WellFormedSnapshot(snapshot) ==
    IsDefined(snapshot) /\ IsDefined(snapshot[1].rootNode) /\ WellFormed(snapshot[1].rootNode[1])

\* How many nodes of a well-formed tree have the given id.
RECURSIVE CountId(_, _)
RECURSIVE CountIdInChildren(_, _)
CountId(node, id) == (IF node.id = Some(id) THEN 1 ELSE 0) + CountIdInChildren(node.children[1], id)

CountIdInChildren(children, id) ==
    IF Len(children) = 0 THEN 0 ELSE CountId(Head(children), id) + CountIdInChildren(Tail(children), id)

\* The tree with every node equal to Button replaced by Renamed.
RECURSIVE RenameButton(_)
RenameButton(node) ==
    IF node = Button THEN Renamed
    ELSE [node EXCEPT !.children = Some([i \in 1..Len(node.children[1]) |-> RenameButton(node.children[1][i])])]

HealDone == call = "healSelector" /\ pc = "done"

Idle == call = "none"

Next ==
    \/ Idle /\ UNCHANGED <<plugin, server>>
            /\ \E originalSelector \in Locators, baseline \in BaselineSnapshots, current \in CurrentSnapshots :
                  HealCall(originalSelector, baseline, current)
    \/ HealResolve /\ UNCHANGED <<plugin, server>>
    \/ HealFind /\ UNCHANGED <<plugin, server>>
    \/ HealScore /\ UNCHANGED <<plugin, server>>
    \/ HealSynthesize /\ UNCHANGED <<plugin, server>>
    \/ HealRank /\ UNCHANGED <<plugin, server>>
    \/ Idle /\ UNCHANGED <<plugin, server>>
            /\ \E reference \in Nodes, rootNode \in FindRoots : FindCall(reference, rootNode)
    \/ Idle /\ UNCHANGED <<plugin, server>> /\ \E reference \in Nodes, candidates \in CandidateLists : ScoreCall(reference, candidates)
    \/ Idle /\ UNCHANGED <<plugin, server>> /\ \E element \in Nodes : GenerateCall(element)
    \/ Idle /\ UNCHANGED <<plugin, server>> /\ \E text1 \in Texts, text2 \in Texts : TextSimilarityCall(text1, text2)
    \/ Return /\ UNCHANGED <<plugin, server>>

Spec == Init /\ [][Next]_vars

\* The positions of a healSelector call that has started and not ended.
HealPhases == {"resolve", "find", "score", "synthesize", "rank"}

\* A step of a healSelector call that has started: each of HealResolve, HealFind,
\* HealScore, HealSynthesize and HealRank is enabled at its position, whatever the
\* arguments, and moves pc; no other action moves pc during a call.
HealStep == call = "healSelector" /\ pc \in HealPhases /\ pc' \in (HealPhases \cup {"done"})

\* A call that has started keeps running: the body of healSelector has no await,
\* so the engine runs it to its return once it is called.
LiveSpec == Spec /\ WF_pc(HealStep)

\* The browser side: commands of a test run one at a time, and the test
\* configures CyFix between them.
PluginNext ==
    \/ UNCHANGED <<core, server>> /\ \E selector \in Selectors, options \in Options, reaction \in Reactions :
                              GetCommand(selector, options, reaction)
    \/ UNCHANGED <<core, server>> /\ \E subject \in Subjects, selector \in Selectors, options \in Options, reaction \in Reactions :
                              FindCommand(subject, selector, options, reaction)
    \/ UNCHANGED <<core, server>> /\ \E hasRejectCallback \in BOOLEAN : ThenCall(hasRejectCallback)
    \/ UNCHANGED <<core, server>> /\ HealSelectorTask
    \/ UNCHANGED <<core, server>> /\ \E healingResults \in TaskResultLists : OtherTask(healingResults)
    \/ UNCHANGED <<core, server>> /\ \E retry \in Reactions : HealingThen(retry)
    \/ UNCHANGED <<core, server>> /\ CommandReturn
    \/ UNCHANGED <<core, server>> /\ \E options \in ConfigureOptions : Configure(options)
    \/ UNCHANGED <<core, server>> /\ Disable
    \/ UNCHANGED <<core, server>> /\ Enable

PluginSpec == Init /\ [][PluginNext]_vars

\* ------------------------------------------------- Database: lifecycle
\* initialize() is called: it awaits fs.mkdir and open().
InitializeCall ==
    /\ database.pending = "idle"
    /\ database' = [database EXCEPT !.pending = "opening"]
    /\ UNCHANGED <<file, now, reply>>

\* open() has resolved: this.db is set, PRAGMA and createTables() are awaited.
InitializeOpen ==
    /\ database.pending = "opening"
    /\ database' = [db |-> TRUE, pending |-> "creating"]
    /\ UNCHANGED <<file, now, reply>>

\* createTables() has resolved and with it initialize().
InitializeDone ==
    /\ database.pending = "creating"
    /\ database' = [database EXCEPT !.pending = "idle"]
    /\ file' = createTables(file)
    /\ reply' = Reply("initialize", <<>>, "resolved", "", <<>>, <<>>)
    /\ UNCHANGED now

\* close() is called: with this.db set it awaits this.db.close(), otherwise
\* it resolves at once.
CloseCall ==
    /\ database.pending = "idle"
    /\ IF database.db
       THEN database' = [database EXCEPT !.pending = "closing"] /\ UNCHANGED reply
       ELSE reply' = Reply("close", <<>>, "resolved", "", <<>>, <<>>) /\ UNCHANGED database
    /\ UNCHANGED <<file, now>>

\* this.db.close() has resolved: this.db = null.
CloseDone ==
    /\ database.pending = "closing"
    /\ database' = [db |-> FALSE, pending |-> "idle"]
    /\ reply' = Reply("close", <<>>, "resolved", "", <<>>, <<>>)
    /\ UNCHANGED <<file, now>>

\* Date.now() moves on.
Tick ==
    /\ now < MaxClock
    /\ now' = now + 1
    /\ UNCHANGED <<database, file, reply>>

\* ------------------------------------------------ Database: operations
\* The row ids handed out so far.
RowIds(f) == f.sequence.dom_snapshots + f.sequence.selectors + f.sequence.healing_records

\* An operation that did not get to its statement, or whose statement failed.
Rejects(op, request, error) ==
    /\ reply' = Reply(op, request, "rejected", error, <<>>, <<>>)
    /\ UNCHANGED file

StoreDOMSnapshot(testId, snapshot) ==
    /\ RowIds(file) < MaxRowId
    /\ \E effect \in Outcomes(database, file) :
          IF effect # "done" THEN Rejects("storeDOMSnapshot", <<testId, snapshot>>, ErrorOf(effect))
          ELSE IF storeDOMSnapshotFails(file, testId, snapshot)
               THEN Rejects("storeDOMSnapshot", <<testId, snapshot>>, ConstraintError)
          ELSE /\ file' = storeDOMSnapshot(file, testId, snapshot)
               /\ reply' = Reply("storeDOMSnapshot", <<testId, snapshot>>, "resolved", "", <<file'.sequence.dom_snapshots>>, <<>>)
    /\ UNCHANGED <<database, now>>

GetLatestDOMSnapshot(testId) ==
    /\ \E effect \in Outcomes(database, file) :
          IF effect # "done" THEN Rejects("getLatestDOMSnapshot", <<testId>>, ErrorOf(effect))
          ELSE /\ reply' = Reply("getLatestDOMSnapshot", <<testId>>, "resolved", "", getLatestDOMSnapshot(file, testId), <<>>)
               /\ UNCHANGED file
    /\ UNCHANGED <<database, now>>

StoreSelector(testId, selector, domSnapshotId) ==
    /\ RowIds(file) < MaxRowId
    /\ \E effect \in Outcomes(database, file) :
          IF effect # "done" THEN Rejects("storeSelector", <<testId, selector, domSnapshotId>>, ErrorOf(effect))
          ELSE IF storeSelectorFails(file, domSnapshotId)
               THEN Rejects("storeSelector", <<testId, selector, domSnapshotId>>, ConstraintError)
          ELSE /\ file' = storeSelector(file, testId, selector, domSnapshotId, now)
               /\ reply' = Reply("storeSelector", <<testId, selector, domSnapshotId>>, "resolved", "",
                                 <<file'.sequence.selectors>>, <<>>)
    /\ UNCHANGED <<database, now>>

GetSelectors(testId) ==
    /\ \E effect \in Outcomes(database, file) :
          IF effect # "done" THEN Rejects("getSelectors", <<testId>>, ErrorOf(effect))
          ELSE /\ \E rows \in getSelectors(file, testId) :
                      reply' = Reply("getSelectors", <<testId>>, "resolved", "", rows, <<>>)
               /\ UNCHANGED file
    /\ UNCHANGED <<database, now>>

StoreHealingRecord(h) ==
    /\ RowIds(file) < MaxRowId
    /\ \E effect \in Outcomes(database, file) :
          IF effect # "done" THEN Rejects("storeHealingRecord", h, ErrorOf(effect))
          ELSE /\ file' = storeHealingRecord(file, h.originalSelector, h.healedSelector, h.score, h.strategy,
                                             h.success, h.url, h.testId, now)
               /\ reply' = Reply("storeHealingRecord", h, "resolved", "", <<file'.sequence.healing_records>>, <<>>)
    /\ UNCHANGED <<database, now>>

GetHealingSuggestions(originalSelector, url) ==
    /\ \E effect \in Outcomes(database, file) :
          IF effect # "done" THEN Rejects("getHealingSuggestions", [selector |-> originalSelector, url |-> url], ErrorOf(effect))
          ELSE /\ \E records \in getHealingSuggestions(file, originalSelector, url) :
                      reply' = Reply("getHealingSuggestions", [selector |-> originalSelector, url |-> url],
                                     "resolved", "", records, <<>>)
               /\ UNCHANGED file
    /\ UNCHANGED <<database, now>>

GetHealingStats ==
    /\ \E effect \in Outcomes(database, file) :
          IF effect # "done" THEN Rejects("getHealingStats", <<>>, ErrorOf(effect))
          ELSE /\ reply' = Reply("getHealingStats", <<>>, "resolved", "", <<getHealingStats(file)>>, <<>>)
               /\ UNCHANGED file
    /\ UNCHANGED <<database, now>>

\* ------------------------------------------------- routes/healing.ts
\* res.status(...).json(...): the body is results for /heal, the id for
\* /report and the suggestions for /suggestions.
Responds(op, request, status, error, value, calls) ==
    reply' = Reply(op, request, status, error, value, calls)

\* POST /api/healing/heal.
PostHeal(body) ==
    /\ IF ~Truthy(body.originalSelector) \/ ~IsDefined(body.domSnapshot)
       THEN Responds("POST /heal", body, "400", "Missing required fields: originalSelector or domSnapshot", <<>>, <<>>)
       ELSE LET asksHistory == IsDefined(body.context) /\ Truthy(body.context[1].url)
                history == IF asksHistory THEN <<"db.getHealingSuggestions">> ELSE <<>>
            IN \E effect \in Outcomes(database, file) :
                  IF effect # "done"
                  THEN (IF asksHistory
                        THEN Responds("POST /heal", body, "500", ErrorOf(effect), <<>>, history)
                        ELSE IF Truthy(body.testId)
                             THEN Responds("POST /heal", body, "500", ErrorOf(effect), <<>>, <<"db.getLatestDOMSnapshot">>)
                        ELSE \E healed \in {healResults(body, file, <<>>)} :
                                Responds("POST /heal", body, "200", "", healed.results, healed.calls))
                  ELSE \E existingHealings \in (IF asksHistory
                                                THEN getHealingSuggestions(file, body.originalSelector[1], body.context[1].url)
                                                ELSE {<<>>}) :
                          \E healed \in {healResults(body, file, existingHealings)} :
                             Responds("POST /heal", body, "200", "", healed.results, history \o healed.calls)
    /\ UNCHANGED <<database, file, now>>

\* POST /api/healing/report.
PostReport(body) ==
    /\ IF \/ ~Truthy(body.originalSelector) \/ ~Truthy(body.healedSelector) \/ ~IsDefined(body.score)
          \/ ~Truthy(body.strategy) \/ ~IsDefined(body.success) \/ ~Truthy(body.url)
       THEN Responds("POST /report", body, "400", "Missing required fields", <<>>, <<>>) /\ UNCHANGED file
       ELSE /\ RowIds(file) < MaxRowId
            /\ \E effect \in Outcomes(database, file) :
                  IF effect # "done"
                  THEN Responds("POST /report", body, "500", ErrorOf(effect), <<>>, <<"db.storeHealingRecord">>)
                       /\ UNCHANGED file
                  ELSE /\ file' = storeHealingRecord(file, body.originalSelector[1], body.healedSelector[1], body.score[1],
                                                     body.strategy[1], body.success[1], body.url[1], body.testId, now)
                       /\ Responds("POST /report", body, "201", "", <<file'.sequence.healing_records>>,
                                   <<"db.storeHealingRecord">>)
    /\ UNCHANGED <<database, now>>

\* GET /api/healing/suggestions.
GetSuggestions(query) ==
    /\ IF ~Truthy(query.selector)
       THEN Responds("GET /suggestions", query, "400", "Missing required query parameter: selector", <<>>, <<>>)
       ELSE \E effect \in Outcomes(database, file) :
               IF effect # "done"
               THEN Responds("GET /suggestions", query, "500", ErrorOf(effect), <<>>, <<"db.getHealingSuggestions">>)
               ELSE \E suggestions \in getHealingSuggestions(file, query.selector[1], query.url) :
                       Responds("GET /suggestions", query, "200", "", suggestions, <<"db.getHealingSuggestions">>)
    /\ UNCHANGED <<database, file, now>>

\* The server side: a Database object and the healing routes over it.  The
\* lifecycle calls come one after the other, initialize() on a database that
\* is not open; operations and requests come at any time.
ServerNext ==
    \/ UNCHANGED <<core, plugin>> /\ ~database.db /\ InitializeCall
    \/ UNCHANGED <<core, plugin>> /\ InitializeOpen
    \/ UNCHANGED <<core, plugin>> /\ InitializeDone
    \/ UNCHANGED <<core, plugin>> /\ CloseCall
    \/ UNCHANGED <<core, plugin>> /\ CloseDone
    \/ UNCHANGED <<core, plugin>> /\ Tick
    \/ UNCHANGED <<core, plugin>> /\ \E testId \in TestIds, snapshot \in StoredSnapshots : StoreDOMSnapshot(testId, snapshot)
    \/ UNCHANGED <<core, plugin>> /\ \E testId \in TestIds : GetLatestDOMSnapshot(testId)
    \/ UNCHANGED <<core, plugin>> /\ \E testId \in TestIds, domSnapshotId \in 1..MaxRowId :
                                        StoreSelector(testId, "#submit", domSnapshotId)
    \/ UNCHANGED <<core, plugin>> /\ \E testId \in TestIds : GetSelectors(testId)
    \/ UNCHANGED <<core, plugin>> /\ \E h \in Healings : StoreHealingRecord(h)
    \/ UNCHANGED <<core, plugin>> /\ \E url \in SuggestionUrls : GetHealingSuggestions("#submit", url)
    \/ UNCHANGED <<core, plugin>> /\ GetHealingStats
    \/ UNCHANGED <<core, plugin>> /\ \E body \in HealBodies : PostHeal(body)
    \/ UNCHANGED <<core, plugin>> /\ \E body \in ReportBodies : PostReport(body)
    \/ UNCHANGED <<core, plugin>> /\ \E query \in SuggestionQueries : GetSuggestions(query)

ServerSpec == Init /\ [][ServerNext]_vars

\* ================================================================ claims

\* C1 (as stated by the specification): healing "#foo" with a well-formed
\* baseline that contains a node with id "foo" and a current tree identical
\* to it returns a non-empty sequence whose first result has selector "#foo"
\* and score 1.0.
C1_RoundTripScoreOne ==
    (/\ HealDone
     /\ args.originalSelector = "#foo"
     /\ WellFormedSnapshot(args.baseline)
     /\ args.current = args.baseline
     /\ \E n \in NodesOf(args.baseline[1].rootNode[1]) : n.id = Some("foo"))
    => (/\ outcome = "returned"
        /\ Len(returned) > 0
        /\ returned[1].selector = "#foo"
        /\ returned[1].score = RInt(1))

\* C2: when the tag names of the reference and of a candidate differ, the
\* Scorer gives that candidate score 0 and an empty matched-feature list,
\* whatever else the two nodes share; a list of such candidates never makes
\* the Scorer fail.
C2_DifferentTagScoresZero ==
    call = "scoreElements" =>
        /\ (\A i \in 1..Len(args.candidateElements) :
                args.candidateElements[i].tagName # args.baselineElement.tagName) => outcome = "returned"
        /\ outcome = "returned" =>
               \A i \in 1..Len(returned) :
                   returned[i].element.tagName # args.baselineElement.tagName
                   => returned[i].score = RInt(0) /\ returned[i].matchedFeatures = <<>>

\* C2 witness: a candidate of another tag that shares the reference's id,
\* classes and text has been scored.
C2_Witness ==
    /\ call = "scoreElements" /\ outcome = "returned"
    /\ \E i \in 1..Len(returned) :
          /\ returned[i].element.tagName # args.baselineElement.tagName
          /\ Truthy(args.baselineElement.id)
          /\ returned[i].element.id = args.baselineElement.id
          /\ returned[i].element.className = args.baselineElement.className
          /\ returned[i].element.textContent = args.baselineElement.textContent
          /\ returned[i].score = RInt(0)

ScoreInUnitInterval(r) ==
    /\ RLeq(RInt(0), r.totalScore)
    /\ r.maxPossibleScore >= 0
    /\ RLeq(r.totalScore, RInt(r.maxPossibleScore))
    /\ RLeq(RInt(0), r.score)
    /\ RLeq(r.score, RInt(1))

\* C3: every score the Scorer returns lies in [0,1]: the accumulated total
\* is never negative and never exceeds the accumulated maximum, both in a
\* direct scoreElements call and in the Score phase of healSelector.
C3_ScoreInUnitInterval ==
    /\ call = "scoreElements" /\ outcome = "returned" => \A i \in 1..Len(returned) : ScoreInUnitInterval(returned[i])
    /\ \A i \in 1..Len(scoredCandidates) : ScoreInUnitInterval(scoredCandidates[i])

\* C3 witness: a same-tag pair in which id, every class, the text and an
\* attribute matched has been scored.
C3_Witness ==
    /\ call = "scoreElements" /\ outcome = "returned"
    /\ \E i \in 1..Len(returned) :
          /\ SeqIncludes(returned[i].matchedFeatures, "id:foo")
          /\ SeqIncludes(returned[i].matchedFeatures, "text:similar")
          /\ SeqIncludes(returned[i].matchedFeatures, "attr:data-testid")
          /\ SeqIncludes(returned[i].matchedFeatures, "structure:similar-children-count")
          /\ RLess(RInt(0), returned[i].score)

\* C4: a healSelector call whose originalSelector does not start with '#'
\* ends by returning the empty sequence, for every pair of snapshots (the
\* malformed ones included); it never rejects.
C4_NonIdLocatorReturnsEmpty ==
    (HealDone /\ ~StartsWith(args.originalSelector, "#")) => (outcome = "returned" /\ returned = <<>>)

\* C4 witness: ".some-class" was healed against well-formed identical snapshots
\* that contain a node with id "foo", and the call returned [].
C4_Witness ==
    /\ HealDone
    /\ args.originalSelector = ".some-class"
    /\ WellFormedSnapshot(args.baseline)
    /\ args.current = args.baseline
    /\ \E n \in NodesOf(args.baseline[1].rootNode[1]) : n.id = Some("foo")
    /\ phases = <<"resolve">>
    /\ outcome = "returned" /\ returned = <<>>

\* C5: a healSelector call never rejects, and a call in which a fault was
\* raised (in Resolve, Find, Score or Synthesize) returns the empty sequence.
C5_FaultsAreCaught ==
    call = "healSelector" =>
        /\ outcome # "thrown"
        /\ (pc = "done" /\ loggedError # "none") => (outcome = "returned" /\ returned = <<>>)

\* C5 witness: a candidate without an attributes map made the Synthesize
\* phase fail after Resolve, Find and Score had succeeded.
C5_Witness ==
    /\ HealDone
    /\ loggedError = "synthesize"
    /\ Len(scoredCandidates) > 0
    /\ outcome = "returned" /\ returned = <<>>

\* C6: the sequence generateSelectors returns has no two entries with the
\* same value, every returned entry is one of the generated entries, and
\* for every generated entry the returned entry of the same value has a
\* specificity at least as high.
C6_DeduplicatedKeepsHighest ==
    (call = "generateSelectors" /\ outcome = "returned") =>
        /\ \A i, j \in 1..Len(returned) : i # j => returned[i].value # returned[j].value
        /\ \A i \in 1..Len(returned) : SeqIncludes(selectors, returned[i])
        /\ \A k \in 1..Len(selectors) :
               \E i \in 1..Len(returned) : /\ returned[i].value = selectors[k].value
                                           /\ RLeq(selectors[k].specificity, returned[i].specificity)

\* C6 witness: two entries with the same value and different specificities
\* were generated, the one of higher specificity second, and it was kept.
C6_Witness ==
    /\ call = "generateSelectors" /\ outcome = "returned"
    /\ \E k1, k2 \in 1..Len(selectors) :
          /\ k1 < k2
          /\ selectors[k1].value = selectors[k2].value
          /\ RLess(selectors[k1].specificity, selectors[k2].specificity)
          /\ SeqIncludes(returned, selectors[k2])
          /\ ~SeqIncludes(returned, selectors[k1])

\* The end-to-end scenario: "#submit" healed against a well-formed baseline
\* whose only node with id "submit" is Button, and a current tree equal to
\* the baseline except that this button's id is "submit-button".
ScenarioCall ==
    /\ HealDone
    /\ args.originalSelector = "#submit"
    /\ WellFormedSnapshot(args.baseline)
    /\ CountId(args.baseline[1].rootNode[1], "submit") = 1
    /\ Button \in NodesOf(args.baseline[1].rootNode[1])
    /\ args.current = Some(Snapshot(Some(RenameButton(args.baseline[1].rootNode[1]))))

\* C7: in the scenario the Finder returns the renamed button, the Scorer
\* gives it more than 0.3, the first returned result that is not id-based is
\* ".btn.primary" (a class-based result), and that result precedes every
\* css-path and every xpath result.
C7_ScenarioRanking ==
    ScenarioCall =>
        /\ SeqIncludes(candidateElements, Renamed)
        /\ \E i \in 1..Len(scoredCandidates) : scoredCandidates[i].element = Renamed
        /\ \A i \in 1..Len(scoredCandidates) :
               scoredCandidates[i].element = Renamed => RLess(Rat(3, 10), scoredCandidates[i].score)
        /\ outcome = "returned"
        /\ \E p \in 1..Len(returned) :
               /\ returned[p].selector = ".btn.primary"
               /\ returned[p].strategy = "class-based"
               /\ \A i \in 1..(p - 1) : returned[i].strategy = "id-based"
               /\ \E j \in 1..Len(returned) : returned[j].strategy = "css-path"
               /\ \E j \in 1..Len(returned) : returned[j].strategy = "xpath"
               /\ \A j \in 1..Len(returned) : returned[j].strategy \in {"css-path", "xpath"} => p < j

\* C7 witness: the scenario ran through every phase and returned the six
\* selectors of a renamed button, id-based first.
C7_Witness ==
    /\ ScenarioCall
    /\ phases = <<"resolve", "find", "score", "synthesize", "rank">>
    /\ Len(returned) >= 6
    /\ returned[1].selector = "#submit-button"
    /\ returned[2].selector = ".btn.primary"

\* C8 (as stated by the specification): in the scenario the Scorer's score
\* for the renamed button is at least 0.85 and the result for ".btn.primary"
\* has a score of at least 0.68.
C8_ScenarioScoresAsStated ==
    ScenarioCall =>
        /\ \A i \in 1..Len(scoredCandidates) :
               scoredCandidates[i].element = Renamed => RLeq(Rat(85, 100), scoredCandidates[i].score)
        /\ \A i \in 1..Len(returned) :
               returned[i].selector = ".btn.primary" => RLeq(Rat(68, 100), returned[i].score)

\* C8 (amended): in the scenario the 30 points of the id stay in the maximum
\* although the ids differ, so the renamed button has total 50 of maximum 85
\* (score 50/85, about 0.588), and every ".btn.primary" result has score
\* 0.8 * 50/85 (about 0.47).
C8_ScenarioScores ==
    ScenarioCall =>
        /\ \A i \in 1..Len(scoredCandidates) :
               scoredCandidates[i].element = Renamed
               => /\ scoredCandidates[i].maxPossibleScore = 85
                  /\ scoredCandidates[i].totalScore = RInt(50)
                  /\ scoredCandidates[i].score = Rat(50, 85)
        /\ \A i \in 1..Len(returned) :
               returned[i].selector = ".btn.primary" => returned[i].score = RMul(Rat(8, 10), Rat(50, 85))

\* C8 witness: the scenario returned a ".btn.primary" result for a renamed
\* button that was scored 50/85.
C8_Witness ==
    /\ ScenarioCall
    /\ \E i \in 1..Len(scoredCandidates) :
          scoredCandidates[i].element = Renamed /\ scoredCandidates[i].score = Rat(10, 17)
    /\ \E i \in 1..Len(returned) :
          returned[i].selector = ".btn.primary" /\ returned[i].score = Rat(8, 17)

\* C9: the text similarity of (a, b) equals that of (b, a), and the
\* similarity of a non-empty text with itself is 1.
C9_TextSimilaritySymmetricReflexive ==
    call = "calculateTextSimilarity" =>
        /\ returned = calculateTextSimilarity(args.text2, args.text1)
        /\ (args.text1 = args.text2 /\ args.text1 # "") => returned = RInt(1)

\* C9 witness: two texts whose word sets differ in size and overlap in part
\* were compared.
C9_Witness ==
    /\ call = "calculateTextSimilarity"
    /\ args.text1 # args.text2
    /\ RLess(RInt(0), returned) /\ RLess(returned, RInt(1))
    /\ Len(SplitWhitespace(Trim(args.text1))) # Len(SplitWhitespace(Trim(args.text2)))

\* C10: when no node of the target tree has the reference's tag name,
\* findCandidateElements returns the empty sequence (and, for well-formed
\* nodes, does return).
C10_NoTagNoCandidates ==
    (/\ call = "findCandidateElements"
     /\ \A n \in NodesOf(args.currentRoot) : n.tagName # args.baselineElement.tagName)
    => /\ outcome = "returned" => returned = <<>>
       /\ (WellFormed(args.baselineElement) /\ WellFormed(args.currentRoot)) => outcome = "returned"

\* C10 witness: the tree has no node of the reference's tag but has a node
\* with the reference's id, classes and text, and nothing was returned.
C10_Witness ==
    /\ call = "findCandidateElements" /\ outcome = "returned" /\ returned = <<>>
    /\ \A n \in NodesOf(args.currentRoot) : n.tagName # args.baselineElement.tagName
    /\ \E n \in NodesOf(args.currentRoot) :
          /\ Truthy(n.id) /\ n.id = args.baselineElement.id
          /\ n.className = args.baselineElement.className
          /\ n.textContent = args.baselineElement.textContent


\* C11: the sequence healSelector returns is sorted by score in
\* non-increasing order: each result's score is greater than or equal to the
\* score of the result after it, whichever candidate the two were made from.
C11_ResultsSortedByScore ==
    (HealDone /\ outcome = "returned")
    => \A i \in 1..(Len(returned) - 1) : RLeq(returned[i + 1].score, returned[i].score)

\* C11 witness: two candidates survived, the results were ranked, and the
\* ranking interleaved the two candidates' results (the returned order is not
\* the order in which they were emitted).
C11_Witness ==
    /\ HealDone /\ outcome = "returned"
    /\ Len(phases) = 5
    /\ Cardinality({i \in 1..Len(scoredCandidates) : ~RLess(scoredCandidates[i].score, MinCandidateScore)}) >= 2
    /\ returned # synthesize(scoredCandidates)
    /\ \E i \in 1..(Len(returned) - 1) : RLess(returned[i + 1].score, returned[i].score)

\* The candidates of a finished healSelector call whose Scorer score is at
\* least 0.3, in scored order.
Survivors == SelectSeq(scoredCandidates, LAMBDA c : ~RLess(c.score, Rat(3, 10)))

\* The results one candidate contributes: one per generated selector.
DerivedFrom(c) ==
    LET generated == generateSelectors(c.element)
    IN [i \in 1..Len(generated) |->
           [selector |-> generated[i].value, score |-> RMul(c.score, generated[i].specificity),
            strategy |-> generated[i].strategy, source |-> "local"]]

\* How often a value occurs in a sequence.
Occurrences(seq, v) == Cardinality({i \in 1..Len(seq) : seq[i] = v})

\* The healSelector call went through all five steps and returned.
HealRanked == HealDone /\ outcome = "returned" /\ Len(phases) = 5

\* C12: no returned HealingResult is derived from a candidate whose score is
\* below 0.3, a candidate scoring exactly 0.3 or more contributes every one of
\* its generated selectors, and when every candidate scores below 0.3 the
\* result is the empty sequence: the returned results are, with
\* multiplicity, exactly those derived from the candidates scoring at least
\* 0.3.
C12_ThresholdFilter ==
    HealRanked
    => \A survivors \in {Survivors} :
       \A derived \in {[i \in 1..Len(survivors) |-> DerivedFrom(survivors[i])]} :
       \A expected \in {UNION {{derived[i][j] : j \in 1..Len(derived[i])} : i \in 1..Len(survivors)}} :
          /\ Range(returned) = expected
          /\ \A r \in expected :
                 Occurrences(returned, r)
                     = Cardinality(UNION {{<<i, j>> : j \in {k \in 1..Len(derived[i]) : derived[i][k] = r}} : i \in 1..Len(survivors)})
          /\ (survivors = <<>> => returned = <<>>)

\* C12 witness: one candidate scored exactly 0.3 and its selectors were
\* returned, another scored below 0.3 and contributed nothing.
C12_Witness ==
    /\ HealRanked
    /\ \E i \in 1..Len(scoredCandidates) : scoredCandidates[i].score = Rat(3, 10)
    /\ \E i \in 1..Len(scoredCandidates) : RLess(scoredCandidates[i].score, Rat(3, 10))
    /\ Len(returned) > 0

HealingStrategies == {"id-based", "class-based", "attribute", "text-based", "css-path", "xpath"}

\* C13: every HealingResult healSelector returns corresponds to one generated
\* selector of one candidate scoring at least 0.3: its selector is that
\* selector's value, its score is the candidate's score multiplied by the
\* selector's specificity and lies in [0, 1], its strategy is the selector's
\* strategy, one of the six strategies, and its source is "local".
C13_ResultFromOneSelector ==
    (HealDone /\ outcome = "returned")
    => \A generated \in {[i \in 1..Len(scoredCandidates) |->
                              IF HealRanked /\ scoredCandidates[i].score.n * 10 >= 3 * scoredCandidates[i].score.d
                              THEN generateSelectors(scoredCandidates[i].element) ELSE <<>>]} :
       \A k \in 1..Len(returned) :
           LET r == returned[k]
           IN /\ r.source = "local"
              /\ r.strategy \in HealingStrategies
              /\ r.score.d > 0 /\ 0 <= r.score.n /\ r.score.n <= r.score.d
              /\ \E i \in 1..Len(scoredCandidates) :
                     LET c == scoredCandidates[i]
                     IN /\ c.score.n * 10 >= 3 * c.score.d
                        /\ \E j \in 1..Len(generated[i]) :
                               /\ r.selector = generated[i][j].value
                               /\ r.strategy = generated[i][j].strategy
                               /\ r.score.n * (c.score.d * generated[i][j].specificity.d)
                                      = r.score.d * (c.score.n * generated[i][j].specificity.n)

\* C13 witness: results of every strategy but "attribute" and of an
\* "attribute" selector were returned for candidates scoring less than 1, so
\* every returned score is a proper product.
C13_Witness ==
    /\ HealRanked
    /\ \E k \in 1..Len(returned) : returned[k].strategy = "attribute"
    /\ \E k \in 1..Len(returned) : returned[k].strategy = "text-based"
    /\ \E k \in 1..Len(returned) : returned[k].strategy = "class-based"
    /\ \A i \in 1..Len(scoredCandidates) : RLess(scoredCandidates[i].score, RInt(1))
    /\ \E k \in 1..Len(returned) : \A i \in 1..Len(scoredCandidates) : returned[k].score # scoredCandidates[i].score

\* C14: for every target node the sequence generateSelectors returns is
\* sorted by specificity in non-increasing order.
C14_SelectorsSortedBySpecificity ==
    (call = "generateSelectors" /\ outcome = "returned")
    => \A i \in 1..(Len(returned) - 1) : RLeq(returned[i + 1].specificity, returned[i].specificity)

\* C14 witness: the selectors were generated in another order than the one
\* returned, and the returned specificities are not all equal.
C14_Witness ==
    /\ call = "generateSelectors" /\ outcome = "returned"
    /\ returned # removeDuplicateSelectors(selectors)
    /\ \E i \in 1..(Len(returned) - 1) : RLess(returned[i + 1].specificity, returned[i].specificity)

\* The calls of the original command the running command has made so far.
OriginalCalls == SelectSeq(events, LAMBDA e : e.op = "originalFn")

\* The call every command starts with.
FirstCall == OriginalCall(cmd.name, cmd.subject, cmd.selector, cmd.options)

CommandDone == cmd.pc = "done"

\* C15 (as stated by the documentation): when a get fails with an
\* element-not-found error and healing is enabled, the selector the command is
\* retried with is an alternative, not the original failing selector.
C15_RetryUsesAlternative ==
    (CommandDone /\ cmd.name = "get" /\ cmd.task = "cyfix" /\ Len(OriginalCalls) = 2)
    => OriginalCalls[2].args[1] # cmd.selector

C17_DisabledSkipsHealing ==
    /\ switched = "disable" => EnvGet(env, "CYFIX_ENABLED") = BoolValue(FALSE)
    /\ switched = "enable" => EnvGet(env, "CYFIX_ENABLED") = BoolValue(TRUE)
    /\ EnvGet(env, "CYFIX_ENABLED") = BoolValue(FALSE)
       => /\ cmd.pc \in {"idle", "done"}
          /\ CommandDone => /\ events = <<FirstCall>>
                             /\ cmd.settled = cmd.reaction
                             /\ cmd.task = "none" /\ cmd.domSnapshot = Undefined
    /\ (/\ switched = "enable" /\ CommandDone
        /\ cmd.reaction.kind \in {"rejected", "thrown"}
        /\ Includes(cmd.reaction.message, "failed to find element") \/ Includes(cmd.reaction.message, "could not be found")
        /\ cmd.settled.kind # "handled")
       => /\ cmd.task # "none"
          /\ \E i \in 1..Len(events) : events[i].op = "captureDOMSnapshot"
          /\ \E i \in 1..Len(events) : events[i].op = "task"

\* C17 witness: after disable() a get of a selector that is not found ended
\* with the error of the original command.
C17_Witness ==
    /\ switched = "disable"
    /\ CommandDone /\ cmd.name = "get"
    /\ cmd.reaction = Reaction("rejected", "cy.get() failed to find element: #submit")
    /\ cmd.settled = cmd.reaction

\* C18 (as stated by the setup guide): after configure({minScore: m}), when
\* the best result the healSelector task returned scores below m, the command
\* is not retried and the original error is thrown.
C18_MinScoreRespected ==
    (/\ CommandDone /\ Len(cmd.results) > 0
     /\ EnvGet(env, "CYFIX_MINSCORE").type = "number"
     /\ \A i \in 1..Len(cmd.results) : RLess(cmd.results[i].score, EnvGet(env, "CYFIX_MINSCORE").num))
    => /\ OriginalCalls = <<FirstCall>>
       /\ cmd.settled = Reaction("rejected", cmd.error[1])

\* The matching rules of the Candidate Finder as the specification states
\* them, read off the reference node: equal ids, a shared class token, the
\* reference text contained in the node's text, or an attribute (other than
\* id and class) of the same name with an exactly equal value.
SomeFeatureMatches(reference, node) ==
    \/ Truthy(reference.id) /\ node.id = reference.id
    \/ /\ Truthy(reference.className) /\ Truthy(node.className)
       /\ Range(ClassTokens(reference.className)) \cap Range(ClassTokens(node.className)) # {}
    \/ /\ Truthy(reference.textContent) /\ Truthy(node.textContent)
       /\ Includes(node.textContent[1], reference.textContent[1])
    \/ \E i \in 1..Len(reference.attributes[1]) :
           LET attr == reference.attributes[1][i]
           IN /\ attr.name \notin {"id", "class"}
              /\ \E j \in 1..Len(node.attributes[1]) : node.attributes[1][j] = attr

\* C19 (as stated by the specification): a node of the target tree is
\* returned by findCandidateElements if and only if its tagName equals the
\* reference's and at least one reference feature matches it, an attribute
\* feature matching on an exactly equal value whatever the value contains.
C19_CandidateIffFeatureMatches ==
    (/\ call = "findCandidateElements" /\ outcome = "returned"
     /\ WellFormed(args.baselineElement) /\ WellFormed(args.currentRoot))
    => \A node \in NodesOf(args.currentRoot) :
           (node \in Range(returned))
               <=> (node.tagName = args.baselineElement.tagName /\ SomeFeatureMatches(args.baselineElement, node))

\* The word set of a text: lowercase, trim, split on whitespace.
WordSet(text) == Range(SplitWhitespace(Trim(ToLowerCase(text))))

\* The seven additive steps of the Similarity Scorer as the specification
\* states them, for a candidate of the reference's tag: an id, class tokens,
\* a text and every attribute that is present on the reference count towards
\* the maximum, an attribute being present whatever its value is.
StepsScore(reference, candidate) ==
    LET refAttrs == reference.attributes[1]
        candAttrs == candidate.attributes[1]
        refClasses == IF Truthy(reference.className) THEN Range(ClassTokens(reference.className)) ELSE {}
        candClasses == IF Truthy(candidate.className) THEN Range(ClassTokens(candidate.className)) ELSE {}
        refWords == WordSet(reference.textContent[1])
        candWords == WordSet(IF IsDefined(candidate.textContent) THEN candidate.textContent[1] ELSE "")
        sim == Rat(Cardinality(refWords \cap candWords), Cardinality(refWords \cup candWords))
        important == {i \in 1..Len(refAttrs) : refAttrs[i].name \in Range(importantAttrs)}
        others == {i \in 1..Len(refAttrs) : refAttrs[i].name \notin Range(importantAttrs) \cup {"id", "class"}}
        Equal(i) == \E j \in 1..Len(candAttrs) : candAttrs[j] = refAttrs[i]
        maxPossible == 10 + (IF Truthy(reference.id) THEN 30 ELSE 0)
                          + (IF refClasses # {} THEN 20 ELSE 0)
                          + (IF Truthy(reference.textContent) THEN 15 ELSE 0)
                          + 10 * Cardinality(important) + 5 * Cardinality(others) + 10
        idPoints == IF Truthy(reference.id) /\ candidate.id = reference.id THEN 30 ELSE 0
        classPoints == IF refClasses # {} THEN Rat(20 * Cardinality(refClasses \cap candClasses), Cardinality(refClasses)) ELSE RInt(0)
        textPoints == IF ~Truthy(reference.textContent) THEN RInt(0)
                      ELSE IF sim.n * 10 > 8 * sim.d THEN Rat(15 * sim.n, sim.d)
                      ELSE IF sim.n * 10 > 5 * sim.d THEN Rat(10 * sim.n, sim.d)
                      ELSE RInt(0)
        attrPoints == 10 * Cardinality({i \in important : Equal(i)}) + 5 * Cardinality({i \in others : Equal(i)})
        structurePoints == IF AbsDiff(Len(reference.children[1]), Len(candidate.children[1])) <= 2 THEN 5 ELSE 0
        total == RAdd(RAdd(RInt(10 + idPoints + attrPoints + structurePoints), classPoints), textPoints)
    IN Rat(total.n, total.d * maxPossible)

\* C20 (as stated by the specification): for every reference and candidate of
\* the same tag the Scorer's score is total/max of the seven steps; a
\* reference id adds 30 to max whether or not the candidate's id equals it,
\* and every important attribute present on the reference adds 10 to max,
\* also when its value is the empty string.
C20_ScoreFollowsSteps ==
    (call = "scoreElements" /\ outcome = "returned" /\ WellFormed(args.baselineElement))
    => \A i \in 1..Len(returned) :
           (returned[i].element.tagName = args.baselineElement.tagName /\ WellFormed(returned[i].element))
           => returned[i].score = StepsScore(args.baselineElement, returned[i].element)

\* ---------------------------------------------------------------- C21
GenerateReturned == call = "generateSelectors" /\ outcome = "returned"

\* The index of the css-path entry in the selectors array before duplicates are removed.
CssPathIndex == Len(selectors) - 1

\* An earlier selector has the value of the css path and a specificity of at least 0.7.
CssPathShadowed ==
    \E i \in 1..(CssPathIndex - 1) :
        /\ selectors[i].value = selectors[CssPathIndex].value
        /\ RLeq(Rat(7, 10), selectors[i].specificity)

\* C21 as stated: every sequence returned by generateSelectors contains a css-path entry
\* of specificity 0.7 and an xpath entry of specificity 0.6.
C21_FallbacksAlwaysPresent ==
    GenerateReturned =>
        /\ \E k \in 1..Len(returned) : returned[k].strategy = "css-path" /\ returned[k].specificity = Rat(7, 10)
        /\ \E k \in 1..Len(returned) : returned[k].strategy = "xpath" /\ returned[k].specificity = Rat(6, 10)

\* C21 amended: the returned sequence always contains the xpath entry with specificity 0.6, so it
\* is never empty, and always contains the value of the css path: as a css-path entry of
\* specificity 0.7, unless an earlier rule emitted the same value with a specificity of at
\* least 0.7, in which case that earlier entry is the one kept and no css-path entry remains.
C21_FallbacksPresentUnlessShadowed ==
    GenerateReturned =>
        /\ Len(returned) > 0
        /\ \E k \in 1..Len(returned) : returned[k] = selectors[Len(selectors)]
        /\ selectors[Len(selectors)].strategy = "xpath" /\ selectors[Len(selectors)].specificity = Rat(6, 10)
        /\ selectors[CssPathIndex].strategy = "css-path" /\ selectors[CssPathIndex].specificity = Rat(7, 10)
        /\ IF CssPathShadowed
           THEN /\ \A k \in 1..Len(returned) : returned[k].strategy # "css-path"
                /\ \E k \in 1..Len(returned) :
                       /\ returned[k].value = selectors[CssPathIndex].value
                       /\ RLeq(Rat(7, 10), returned[k].specificity)
           ELSE \E k \in 1..Len(returned) : returned[k] = selectors[CssPathIndex]

\* A call whose css path was already emitted by the tag-with-class rule at a higher specificity.
C21_Witness == GenerateReturned /\ CssPathShadowed /\ args.element = Sized

\* ---------------------------------------------------------------- C22
PhaseOrder == <<"resolve", "find", "score", "synthesize", "rank">>

\* Resolve returns null for the arguments of the call.
ResolveNotFound ==
    /\ IsDefined(args.baseline)
    /\ findElementBySelector(args.baseline[1].rootNode, args.originalSelector).kind = "null"

\* Resolve returns an element and Find returns no candidate for it.
FindEmpty ==
    /\ IsDefined(args.baseline) /\ IsDefined(args.current)
    /\ \A found \in {findElementBySelector(args.baseline[1].rootNode, args.originalSelector)} :
           /\ found.kind = "node"
           /\ ~findCandidateElementsThrows(found.node[1], args.current[1].rootNode)
           /\ Len(findCandidateElements(found.node[1], args.current[1].rootNode)) = 0

\* The phases run so far are the first phases of the order, each once.
PhasesInOrder == Len(phases) <= Len(PhaseOrder) /\ phases = SubSeq(PhaseOrder, 1, Len(phases))

\* C22: healSelector is single pass: the phases of a call run in the order Resolve, Find,
\* Score, Synthesize, Rank, none twice; a call whose Resolve finds no element ends with the
\* empty result after Resolve alone, a call whose Find finds no candidate ends with the
\* empty result after Resolve and Find alone; and every call that starts ends.
C22_SinglePass ==
    /\ [](call = "healSelector" =>
             /\ PhasesInOrder
             /\ (pc = "done") = (outcome # "none")
             /\ HealDone /\ ResolveNotFound => phases = <<"resolve">> /\ outcome = "returned" /\ returned = <<>>
             /\ HealDone /\ FindEmpty => phases = <<"resolve", "find">> /\ outcome = "returned" /\ returned = <<>>)
    /\ (call = "healSelector" ~> HealDone)

\* A call that ended after Find because no candidate was found.
C22_Witness == HealDone /\ FindEmpty /\ phases = <<"resolve", "find">>

\* ---------------------------------------------------------------- C23
\* The nodes of a tree in depth-first pre-order.
RECURSIVE PreOrder(_)
RECURSIVE PreOrderOfChildren(_)
PreOrder(node) == <<node>> \o (IF IsDefined(node.children) THEN PreOrderOfChildren(node.children[1]) ELSE <<>>)

PreOrderOfChildren(children) ==
    IF Len(children) = 0 THEN <<>> ELSE PreOrder(Head(children)) \o PreOrderOfChildren(Tail(children))

\* The baseline has a root and every node of its tree has a children list, as DOMNode declares.
BaselineTyped ==
    /\ IsDefined(args.baseline) /\ IsDefined(args.baseline[1].rootNode)
    /\ \A node \in NodesOf(args.baseline[1].rootNode[1]) : IsDefined(node.children)

\* Resolve has answered not-found: the call has ended after Resolve alone with the empty result, nothing thrown.
ResolvedNotFound ==
    /\ phases = <<"resolve">> /\ pc = "done" /\ outcome = "returned" /\ returned = <<>>
    /\ loggedError = "none" /\ baselineElement = Undefined

\* The locator starts with '#'.
IdLocator == Len(args.originalSelector) > 0 /\ SubSeq(args.originalSelector, 1, 1) = "#"

\* C23: once Resolve has run in a healSelector call, a locator "#x" has resolved to the first
\* node of the baseline tree, in depth-first pre-order, whose id is the whole text x after the
\* '#', and to not-found when no node has that id; a locator that does not start with '#' has
\* resolved to not-found whatever the baseline's tree is, even one that cannot be walked.
C23_ResolveFirstInPreOrder ==
    call = "healSelector" /\ Len(phases) >= 1 /\ IsDefined(args.baseline) =>
        IF IdLocator
        THEN BaselineTyped =>
                 \A matches \in {SelectSeq(PreOrder(args.baseline[1].rootNode[1]),
                                           LAMBDA node : node.id = Some(SubSeq(args.originalSelector, 2, Len(args.originalSelector))))} :
                     IF Len(matches) = 0 THEN ResolvedNotFound
                     ELSE baselineElement = Some(matches[1]) /\ phases[1] = "resolve"
        ELSE ResolvedNotFound

\* "#submit" resolved in a tree where a div of that id holds a button of that id.
C23_Witness ==
    /\ call = "healSelector" /\ Len(phases) >= 1
    /\ args.originalSelector = "#submit"
    /\ args.baseline = Some(Snapshot(Some(Root(<<Nested>>))))
    /\ baselineElement = Some(Nested)

\* ---------------------------------------------------------------- C26
\* C26: when the healSelector task returns an empty list for a failed get or find, the command
\* fails with the error the original command failed with: the original command has been
\* called once only, nothing is logged as healed, and the command neither resolves nor fails
\* with another error.
C26_EmptyResultRethrows ==
    (CommandDone /\ cmd.task # "none" /\ Len(cmd.results) = 0)
    => /\ cmd.settled = Reaction("rejected", cmd.reaction.message)
       /\ cmd.reaction.kind \in {"rejected", "thrown"}
       /\ OriginalCalls = <<FirstCall>>
       /\ \A i \in 1..Len(events) : events[i].op # "log"
       /\ cmd.retry = Reaction("none", "")

\* A find whose not-found rejection was answered by a task with no result.
C26_Witness ==
    /\ CommandDone /\ cmd.name = "find" /\ cmd.task = "other" /\ Len(cmd.results) = 0
    /\ cmd.reaction = Reaction("rejected", "Element could not be found")
    /\ cmd.settled = cmd.reaction

\* ---------------------------------------------------------------- C28
TaskEvents == SelectSeq(events, LAMBDA e : e.op = "task")

\* C28: healing is attempted at most once per get or find: a command issues at most one
\* healSelector task and calls the original command at most twice; the second call is the
\* last thing the command does, and the command ends with whatever that call does, so a
\* healed selector that fails too ends the command with that failure.
C28_HealingAttemptedOnce ==
    /\ Len(TaskEvents) <= 1
    /\ Len(OriginalCalls) <= 2
    /\ Len(OriginalCalls) = 2
       => /\ CommandDone
          /\ events[Len(events)] = OriginalCalls[2]
          /\ cmd.settled = cmd.retry
          /\ cmd.retry \in Reactions

\* The healed selector failed with a not-found error as well.
C28_Witness ==
    /\ CommandDone /\ cmd.name = "get" /\ Len(OriginalCalls) = 2 /\ Len(TaskEvents) = 1
    /\ cmd.retry = Reaction("rejected", "Element could not be found")
    /\ cmd.settled = cmd.retry

\* ---------------------------------------------------------------- C27
ScoreStrictlyInside(reference, scored) ==
    scored.element.tagName = reference.tagName => RLess(RInt(0), scored.score) /\ RLess(scored.score, RInt(1))

C29_NoDedupAcrossCandidates ==
    HealRanked
    => \A survivors \in {Survivors} :
       \A values \in {[i \in 1..Len(survivors) |-> {r.selector : r \in Range(DerivedFrom(survivors[i]))}]} :
       \A v \in (UNION {values[i] : i \in 1..Len(survivors)}) \cup {r.selector : r \in Range(returned)} :
           Cardinality({k \in 1..Len(returned) : returned[k].selector = v})
               = Cardinality({i \in 1..Len(survivors) : v \in values[i]})

\* Two different candidates survived and ".btn.primary" was returned for each of them.
C29_Witness ==
    /\ HealRanked
    /\ Len(Survivors) = 2 /\ Survivors[1].element # Survivors[2].element
    /\ Cardinality({k \in 1..Len(returned) : returned[k].selector = ".btn.primary"}) = 2

\* ---------------------------------------------------------------- C30
DatabaseOps ==
    {"storeDOMSnapshot", "getLatestDOMSnapshot", "storeSelector", "getSelectors", "storeHealingRecord",
     "getHealingSuggestions", "getHealingStats"}

\* This step is a store or query operation of the Database giving its answer.
OperationStep ==
    /\ reply'.op \in DatabaseOps
    /\ reply'.op # reply.op \/ reply' # reply \/ file' # file

\* This step is close() resolving on a database that is not open.
CloseNotOpenStep == reply'.op = "close" /\ reply.op # "close" /\ ~database.db

\* The operation of this step failed with 'Database not initialized' and
\* left the stored data alone.
FailsNotInitialized == reply'.status = "rejected" /\ reply'.error = NotInitialized /\ file' = file

\* C30 as stated: every store or query operation called before initialize()
\* has completed, or after close() has completed, fails with 'Database not
\* initialized' and changes no stored data.
C30_FailsUntilInitializeCompleted ==
    [][OperationStep /\ (~database.db \/ database.pending \in {"opening", "creating"}) => FailsNotInitialized]_vars

\* C30, amended: a store or query operation fails with 'Database not
\* initialized' exactly when this.db is not set, that is before open() has
\* resolved inside initialize() or after close() has completed, and then it
\* changes no stored data; close() on a database that is not open changes
\* nothing; and once initialize() has completed, also after a close(), the
\* operations are carried out, a store failing only on its foreign key.
C30_FailsWhileHandleUnset ==
    [][/\ OperationStep => /\ (~database.db) <=> (reply'.error = NotInitialized)
                           /\ (~database.db) => FailsNotInitialized
       /\ CloseNotOpenStep => file' = file /\ database' = database /\ reply'.status = "resolved"
       /\ OperationStep /\ database.db /\ database.pending = "idle" =>
              reply'.status = "resolved" \/ reply'.error = ConstraintError]_vars

\* An operation was carried out while a second initialize() was still
\* creating the tables: the file has them from the first one.
C30_Witness ==
    /\ database.pending = "creating"
    /\ file.schema
    /\ reply.op \in DatabaseOps
    /\ reply.status = "resolved"

\* ---------------------------------------------------------------- C25
\* The stored records a query for selector and url asks for; a url that is
\* given is a url that is not empty.
Suggested(selector, url) ==
    {r \in Range(file.healing_records) :
        /\ r.original_selector = selector
        /\ r.success = 1
        /\ (IsDefined(url) /\ url # Some("")) => r.url = url[1]}

\* records holds each record of the set once, by score descending and then
\* timestamp descending.
SuggestedInOrder(records, set) ==
    /\ Range(records) = set
    /\ Len(records) = Cardinality(set)
    /\ \A i \in 1..Len(records) : \A j \in 1..Len(records) :
           i < j => \/ RLess(records[j].score, records[i].score)
                    \/ records[i].score = records[j].score /\ records[i].timestamp >= records[j].timestamp

\* C25: whatever has been stored, getHealingSuggestions(selector, url), called
\* directly or by GET /suggestions, returns exactly the stored records with
\* that original_selector, with success = 1 and, when a url is given, with
\* that url, ordered by score descending and then timestamp descending; no
\* record stored with success = false is among them.
C25_SuggestionsAreSuccessfulMatchesInOrder ==
    /\ (reply.op = "getHealingSuggestions" /\ reply.status = "resolved") =>
           /\ SuggestedInOrder(reply.value, Suggested(reply.request.selector, reply.request.url))
           /\ \A i \in 1..Len(reply.value) : reply.value[i].success # 0
    /\ (reply.op = "GET /suggestions" /\ reply.status = "200") =>
           /\ SuggestedInOrder(reply.value, Suggested(reply.request.selector[1], reply.request.url))
           /\ \A i \in 1..Len(reply.value) : reply.value[i].success # 0

\* A query with a url returned two records in the reverse of the order in
\* which they were stored.
C25_Witness ==
    /\ reply.op = "getHealingSuggestions"
    /\ reply.status = "resolved"
    /\ reply.request.url = Some("/login")
    /\ Len(reply.value) = 2
    /\ reply.value[1].id = 2
    /\ reply.value[2].id = 1

\* ---------------------------------------------------------------- C24
\* The stored successful healings for the selector and context.url of a
\* request; none when the request carries no context.url.
StoredHistory(body) ==
    IF IsDefined(body.context) /\ IsDefined(body.context[1].url)
    THEN {r \in Range(file.healing_records) :
             r.original_selector = body.originalSelector[1] /\ r.success = 1 /\ r.url = body.context[1].url[1]}
    ELSE {}

\* A stored healing as a result of POST /heal.
HistoryResult(r) == [selector |-> r.healed_selector, score |-> r.score, strategy |-> r.strategy, source |-> "server"]

\* answered holds one result for each record of the set.
ResultsOf(answered, set) ==
    /\ Len(answered) = Cardinality(set)
    /\ \E order \in [1..Len(answered) -> set] :
           /\ \A i \in 1..Len(answered) : \A j \in 1..Len(answered) : i # j => order[i] # order[j]
           /\ \A i \in 1..Len(answered) : answered[i] = HistoryResult(order[i])

\* C24: when POST /heal answers a request that carries context.url and the
\* store holds a successful healing for its originalSelector and url, the
\* results are those records, each as healed selector, stored score and
\* strategy with source 'server', and neither getLatestDOMSnapshot nor
\* healSelector was called; healSelector is called only when the store
\* holds no such record.
C24_HistoryShortCircuitsHealing ==
    (reply.op = "POST /heal" /\ reply.status = "200") =>
        /\ StoredHistory(reply.request) # {} =>
               /\ ResultsOf(reply.value, StoredHistory(reply.request))
               /\ reply.calls = <<"db.getHealingSuggestions">>
        /\ (\E i \in 1..Len(reply.calls) : reply.calls[i] = "healSelector") => StoredHistory(reply.request) = {}

\* A request with a testId whose baseline is stored was answered from the
\* history alone.
C24_Witness ==
    /\ reply.op = "POST /heal"
    /\ reply.status = "200"
    /\ IsDefined(reply.request.testId)
    /\ Len(file.dom_snapshots) = 1
    /\ Len(reply.value) = 1
    /\ reply.calls = <<"db.getHealingSuggestions">>

====
